---- MODULE Spec2Model ----
(***************************************************************************)
(* A model of the per-symbol spread-arbitrage engine: the Position Ledger  *)
(* (operations/position_manager.py), the Order Executor                    *)
(* (operations/order_manager.py) and the Engine (bot_models/async_bot.py). *)
(*                                                                         *)
(* Fixed-point units.  Python floats are modelled as exact decimals:       *)
(*   price     1 tick = 0.5 USD        (100 USD = 200 ticks)               *)
(*   quantity  1 unit = 0.005 coin     (1 coin = 200 units)                *)
(*   money     1 unit = 1e-6 USD, so price tick * quantity unit = 2500     *)
(*   time      1 tick of the wall clock                                    *)
(* None is the integer NoneVal, the ledger's side None the string "NONE".  *)
(***************************************************************************)
EXTENDS Integers, Sequences, FiniteSets, TLC

VARIABLES
    now,      \* the wall clock (datetime.now / time.time)
    TC,       \* configs.config.TC in 1/10000 (the per-leg fee rate)
    pm,       \* the PositionManager's fields
    lret,     \* ledger harness: the last call on the ledger and what it returned
    lprev,    \* ledger harness: the call before it (op, raised)
    so,       \* order harness: one call of OrderManager._safe_order
    cfg,      \* Engine: the configuration flags (configs/config.py)
    cache,    \* Engine: the Quote Feed's latest bid/ask per leg
    event,    \* Engine: the Quote Feed's updated_event
    model,    \* Engine: the SpreadModel's ptr, filled, entry_signal
    eng,      \* Engine: where the signal loop stands, and its locals
    legs,     \* Engine: the _safe_order calls in flight (spot leg, futures leg, sweep)
    venue,    \* the exchange: spot balance and futures position of the symbol
    last_trade_time,   \* Bot.last_trade_time
    entry_timestamp,   \* Bot.entry_timestamp (NoneVal: the attribute is not set)
    obs,      \* Engine: what was observed of the last open attempt
    adj,      \* adjust harness: one quantity, one step, adjusted once and again
    sm,      \* model harness: one spread model, its updates and signal calls
    feed       \* feed harness: the two listeners of the PriceCache

engineVars ==
    <<cfg, cache, event, model, eng, legs, venue, last_trade_time,
      entry_timestamp, obs>>

vars == <<now, TC, pm, lret, lprev, so, engineVars, adj, sm, feed>>

\* What the actions of one component leave alone.
nonLedger == <<so, engineVars, adj, sm, feed>>
nonOrder == <<pm, lret, lprev, engineVars, adj, sm, feed>>
nonEngine == <<TC, lret, lprev, so, adj, sm, feed>>
nonAdjust == <<now, TC, pm, lret, lprev, so, engineVars, sm, feed>>
nonModel == <<now, TC, pm, lret, lprev, so, engineVars, adj, feed>>
nonFeed ==
    <<now, TC, pm, lret, lprev, so, cfg, model, eng, legs, venue, last_trade_time,
      entry_timestamp, obs, adj, sm>>

\* ------------------------------------------------------------------ bounds
MaxClock == 2
MaxTime == 4
Lookback == 2
MaxHolding == 30
MaxAdjustQuantity == 350

\* ------------------------------------------------------------------ units
NoneVal == 0 - 1
MoneyPerTickUnit == 25 * 100
TCDen == 100 * 100
Round4Gran == 10 * 10

Abs(x) == IF x < 0 THEN 0 - x ELSE x

\* Python's round(x, ndigits) on exact decimals: to the nearest multiple of
\* gran, ties to the even multiple.
RoundHalfEven(x, gran) ==
    LET lo == (x \div gran) * gran
        r == x - lo
    IN  IF 2 * r < gran THEN lo
        ELSE IF 2 * r > gran THEN lo + gran
        ELSE IF (lo \div gran) % 2 = 0 THEN lo ELSE lo + gran

Round4(x) == RoundHalfEven(x, Round4Gran)

\* ------------------------------------------------------- Position Ledger
Sides == {"LONG", "SHORT"}

EmptyLedger ==
    [side |-> "NONE", spot_entry_price |-> 0, futures_entry_price |-> 0,
     size |-> 0, entry_time |-> NoneVal, is_open |-> FALSE]

\* Mutant of reset: the open flag survives the reset.
reset_KeepsOpen(l) == [EmptyLedger EXCEPT !.is_open = l.is_open]

reset(l) == EmptyLedger

NoResult ==
    [Side |-> "NONE", Size |-> 0, SpotPnL |-> 0, FuturesPnL |-> 0,
     TotalNetPnL |-> 0, Holding |-> 0]

\* Mutant of open: no "already open" guard, the entry is overwritten.
open_Overwrite(l, side, spot_price, futures_price, size, t) ==
    [raised |-> FALSE,
     pm |-> [side |-> side, spot_entry_price |-> spot_price,
             futures_entry_price |-> futures_price, size |-> size,
             entry_time |-> t, is_open |-> TRUE]]

\* PositionManager.open: raises when a position is open, else records the entry.
open(l, side, spot_price, futures_price, size, t) ==
    IF l.is_open
    THEN [raised |-> TRUE, pm |-> l]
    ELSE [raised |-> FALSE,
          pm |-> [side |-> side, spot_entry_price |-> spot_price,
                  futures_entry_price |-> futures_price, size |-> size,
                  entry_time |-> t, is_open |-> TRUE]]

SpotPnl(l, exit_spot_price) ==
    IF l.side = "LONG"
    THEN (exit_spot_price - l.spot_entry_price) * l.size * MoneyPerTickUnit
    ELSE (l.spot_entry_price - exit_spot_price) * l.size * MoneyPerTickUnit

\* Mutant of FuturesPnl: the futures leg valued like the spot leg (exit - entry
\* for LONG).
FuturesPnl_SpotSign(l, exit_futures_price) ==
    IF l.side = "LONG"
    THEN (exit_futures_price - l.futures_entry_price) * l.size * MoneyPerTickUnit
    ELSE (l.futures_entry_price - exit_futures_price) * l.size * MoneyPerTickUnit

FuturesPnl(l, exit_futures_price) ==
    IF l.side = "LONG"
    THEN (l.futures_entry_price - exit_futures_price) * l.size * MoneyPerTickUnit
    ELSE (exit_futures_price - l.futures_entry_price) * l.size * MoneyPerTickUnit

\* fees = TC * notional, notional = (the four prices) * size; TC is in 1/10000
\* and TC * MoneyPerTickUnit is a multiple of TCDen, so the division is exact.
Fees(l, spot_exit_price, futures_exit_price, tc) ==
    LET notional == (l.spot_entry_price + spot_exit_price + l.futures_entry_price
                     + futures_exit_price) * l.size
    IN  ((tc * MoneyPerTickUnit) \div TCDen) * notional

total_net_pnl(l, spot_exit_price, futures_exit_price, tc) ==
    SpotPnl(l, spot_exit_price) + FuturesPnl(l, futures_exit_price)
        - Fees(l, spot_exit_price, futures_exit_price, tc)

\* PositionManager.close: raises when nothing is open, when the side is neither
\* LONG nor SHORT, and (a TypeError) when an exit price is None; otherwise
\* returns the result record, its money values rounded to 4 decimals, and resets.
close(l, spot_exit_price, futures_exit_price, t, tc) ==
    IF \/ ~l.is_open
       \/ l.side \notin Sides
       \/ spot_exit_price = NoneVal
       \/ futures_exit_price = NoneVal
    THEN [raised |-> TRUE, pm |-> l, result |-> NoResult]
    ELSE [raised |-> FALSE,
          pm |-> reset(l),
          result |->
            [Side |-> l.side,
             Size |-> l.size,
             SpotPnL |-> Round4(SpotPnl(l, spot_exit_price)),
             FuturesPnL |-> Round4(FuturesPnl(l, futures_exit_price)),
             TotalNetPnL |->
                Round4(total_net_pnl(l, spot_exit_price, futures_exit_price, tc)),
             Holding |-> IF l.entry_time = NoneVal THEN 99999999
                         ELSE t - l.entry_time]]

\* calc_closing_spot_pnl / calc_closing_futures_pnl raise ValueError when no
\* position is open; calc_total_pnl is their sum.
calc_closing_spot_pnl(l, exit_spot_price) ==
    IF ~l.is_open THEN [raised |-> TRUE, value |-> 0]
    ELSE [raised |-> FALSE, value |-> SpotPnl(l, exit_spot_price)]

\* Mutant of calc_closing_futures_pnl: the futures leg valued like the spot leg.
calc_closing_futures_pnl_SpotSign(l, exit_futures_price) ==
    IF ~l.is_open THEN [raised |-> TRUE, value |-> 0]
    ELSE [raised |-> FALSE, value |-> 0 - FuturesPnl(l, exit_futures_price)]

calc_closing_futures_pnl(l, exit_futures_price) ==
    IF ~l.is_open THEN [raised |-> TRUE, value |-> 0]
    ELSE [raised |-> FALSE, value |-> FuturesPnl(l, exit_futures_price)]

\* Mutant of calc_total_pnl: 0 instead of an error when nothing is open.
calc_total_pnl_ZeroWhenClosed(l, exit_spot_price, exit_futures_price) ==
    IF ~l.is_open THEN [raised |-> FALSE, value |-> 0]
    ELSE [raised |-> FALSE,
          value |-> SpotPnl(l, exit_spot_price) + FuturesPnl(l, exit_futures_price)]

calc_total_pnl(l, exit_spot_price, exit_futures_price) ==
    LET s == calc_closing_spot_pnl(l, exit_spot_price)
        f == calc_closing_futures_pnl(l, exit_futures_price)
    IN  IF s.raised \/ f.raised THEN [raised |-> TRUE, value |-> 0]
        ELSE [raised |-> FALSE, value |-> s.value + f.value]

\* -------------------------------------------------------- Order Executor
max_retries == 3
REDUCE_ONLY_REJECTED == -2022
FILTER_CODES == {-1013, -4131}
OTHER_CODES == {-2010, -1021}

\* What the venue client answers to one create_order: the order is accepted, a
\* BinanceAPIException with a code, or another exception (a transport error).
Responses ==
    {[kind |-> "ok", code |-> 0], [kind |-> "exc", code |-> 0]}
        \cup {[kind |-> "api", code |-> c] :
                c \in FILTER_CODES \cup {REDUCE_ONLY_REJECTED} \cup OTHER_CODES}

Pow10(n) == IF n = 0 THEN 1 ELSE IF n = 1 THEN 10 ELSE IF n = 2 THEN 100 ELSE 1000

\* ---- Python floats (IEEE 754 binary64), computed exactly
\* A natural number of any size: its digits in base 2^15, lowest first, no
\* leading zero digit (zero is the empty sequence).
LimbBase == 2 ^ 15

RECURSIVE BNorm(_)
BNorm(x) ==
    IF x = <<>> THEN <<>>
    ELSE IF x[Len(x)] = 0 THEN BNorm(SubSeq(x, 1, Len(x) - 1))
    ELSE x

RECURSIVE BFromNat(_)
BFromNat(n) == IF n = 0 THEN <<>> ELSE <<n % LimbBase>> \o BFromNat(n \div LimbBase)

RECURSIVE BToNat(_)
BToNat(x) == IF x = <<>> THEN 0 ELSE Head(x) + LimbBase * BToNat(Tail(x))

RECURSIVE BMulCarry(_, _, _)
BMulCarry(x, k, carry) ==
    IF x = <<>> THEN (IF carry = 0 THEN <<>> ELSE <<carry>>)
    ELSE LET t == Head(x) * k + carry
         IN  <<t % LimbBase>> \o BMulCarry(Tail(x), k, t \div LimbBase)

\* x * k for 0 <= k < 2^15.
BMulSmall(x, k) == BNorm(BMulCarry(x, k, 0))

\* x divided by d, 0 < d < 2^15: quotient and remainder.
RECURSIVE BDivRem(_, _)
BDivRem(x, d) ==
    IF x = <<>> THEN [q |-> <<>>, r |-> 0]
    ELSE LET hi == BDivRem(Tail(x), d)
             cur == hi.r * LimbBase + Head(x)
         IN  [q |-> <<cur \div d>> \o hi.q, r |-> cur % d]

RECURSIVE BAddCarry(_, _, _)
BAddCarry(x, y, carry) ==
    IF x = <<>> /\ y = <<>> THEN (IF carry = 0 THEN <<>> ELSE <<carry>>)
    ELSE LET a == IF x = <<>> THEN 0 ELSE Head(x)
             b == IF y = <<>> THEN 0 ELSE Head(y)
             t == a + b + carry
         IN  <<t % LimbBase>>
                \o BAddCarry(IF x = <<>> THEN <<>> ELSE Tail(x),
                             IF y = <<>> THEN <<>> ELSE Tail(y), t \div LimbBase)

BAdd(x, y) == BNorm(BAddCarry(x, y, 0))

\* x - y for x >= y.
RECURSIVE BSubBorrow(_, _, _)
BSubBorrow(x, y, borrow) ==
    IF x = <<>> THEN <<>>
    ELSE LET b == IF y = <<>> THEN 0 ELSE Head(y)
             t == Head(x) - b - borrow
         IN  <<IF t < 0 THEN t + LimbBase ELSE t>>
                \o BSubBorrow(Tail(x), IF y = <<>> THEN <<>> ELSE Tail(y),
                              IF t < 0 THEN 1 ELSE 0)

BSub(x, y) == BNorm(BSubBorrow(x, y, 0))

\* -1, 0, 1 as x < y, x = y, x > y.
RECURSIVE BCmp(_, _)
BCmp(x, y) ==
    IF Len(x) # Len(y) THEN (IF Len(x) < Len(y) THEN 0 - 1 ELSE 1)
    ELSE IF x = <<>> THEN 0
    ELSE LET n == Len(x)
         IN  IF x[n] # y[n] THEN (IF x[n] < y[n] THEN 0 - 1 ELSE 1)
             ELSE BCmp(SubSeq(x, 1, n - 1), SubSeq(y, 1, n - 1))

RECURSIVE Zeros(_)
Zeros(n) == IF n = 0 THEN <<>> ELSE <<0>> \o Zeros(n - 1)

\* x * 2^k and floor(x / 2^k).
BShl(x, k) ==
    IF x = <<>> THEN <<>>
    ELSE Zeros(k \div 15) \o BMulSmall(x, 2 ^ (k % 15))

BShr(x, k) ==
    LET whole == k \div 15
    IN  IF Len(x) <= whole THEN <<>>
        ELSE BNorm(BDivRem(SubSeq(x, whole + 1, Len(x)), 2 ^ (k % 15)).q)

RECURSIVE BitsSmall(_)
BitsSmall(n) == IF n = 0 THEN 0 ELSE 1 + BitsSmall(n \div 2)

\* The number of binary digits of x.
BBits(x) == IF x = <<>> THEN 0 ELSE 15 * (Len(x) - 1) + BitsSmall(x[Len(x)])

\* x / 2^k rounded to the nearest integer, ties to even; sticky: the number
\* rounded is a little above x / 2^k.
RoundShift(x, k, sticky) ==
    IF k = 0 THEN x
    ELSE LET q == BShr(x, k)
             r == BSub(x, BShl(q, k))
             c == BCmp(r, BShl(<<1>>, k - 1))
             odd == q # <<>> /\ Head(q) % 2 = 1
         IN  IF c > 0 \/ (c = 0 /\ (sticky \/ odd)) THEN BAdd(q, <<1>>) ELSE q

\* A float is m * 2^e with m of at most 53 binary digits.  The float nearest to
\* x * 2^e (a little above it when sticky), ties to even.
MantissaBits == 53
ToFloat(x, e, sticky) ==
    LET drop == BBits(x) - MantissaBits
    IN  IF drop <= 0 THEN [m |-> x, e |-> e]
        ELSE [m |-> RoundShift(x, drop, sticky), e |-> e + drop]

\* The float a decimal literal n / 10^p denotes (0 <= p <= 4).
FloatOf(n, p) ==
    LET d == BDivRem(BShl(BFromNat(n), 90), Pow10(p))
    IN  ToFloat(BNorm(d.q), 0 - 90, d.r # 0)

\* k * b <= a, for floats a, b and a natural k < 2^15.
TimesLeq(k, b, a) ==
    LET e0 == IF a.e < b.e THEN a.e ELSE b.e
    IN  BCmp(BShl(BMulSmall(b.m, k), b.e - e0), BShl(a.m, a.e - e0)) <= 0

\* The largest k in lo..hi with k * b <= a (lo * b <= a).
RECURSIVE ExactFloor(_, _, _, _)
ExactFloor(a, b, lo, hi) ==
    IF lo = hi THEN lo
    ELSE LET mid == (lo + hi + 1) \div 2
         IN  IF TimesLeq(mid, b, a) THEN ExactFloor(a, b, mid, hi)
             ELSE ExactFloor(a, b, lo, mid - 1)

\* math.floor(a / b) for floats a >= 0, b > 0 with a / b < 2^15 - 1: the float
\* quotient is the exact quotient rounded to 53 digits, so it reaches the next
\* integer n when the exact quotient is within half a spacing below n.
FloorOfQuotient(a, b) ==
    LET c == ExactFloor(a, b, 0, LimbBase - 2)
        n == c + 1
        E == BitsSmall(n) - 1
        g == IF n = 2 ^ E THEN MantissaBits + 1 - E ELSE MantissaBits - E
        e0 == IF a.e + g < b.e THEN a.e + g ELSE b.e
        lhs == BAdd(BShl(a.m, a.e + g - e0), BShl(b.m, b.e - e0))
        rhs == BShl(BMulSmall(b.m, n), b.e + g - e0)
    IN  IF BCmp(lhs, rhs) >= 0 THEN n ELSE c

\* k * b as a float (k a natural below 2^15): one rounding.
FloatTimes(k, b) == ToFloat(BMulSmall(b.m, k), b.e, FALSE)

\* round(x, precision) of a float x >= 0: the decimal with that many places
\* nearest to the float's exact value, ties to even; as a count of 10^-precision.
RoundTo(x, precision) ==
    LET scaled == BMulSmall(x.m, Pow10(precision))
    IN  BToNat(IF x.e >= 0 THEN BShl(scaled, x.e)
               ELSE RoundShift(scaled, 0 - x.e, FALSE))

\* int(f"{step_size:e}".split("e")[-1]): the decimal exponent of a step size
\* given in thousandths.
Exponent(step_size) ==
    IF step_size < 10 THEN 0 - 3
    ELSE IF step_size < 100 THEN 0 - 2
    ELSE IF step_size < 1000 THEN 0 - 1
    ELSE IF step_size < 10000 THEN 0
    ELSE 1

\* adjust_to_step_size on quantities and steps given in thousandths
\* (0.07 is 70): round(math.floor(quantity / step_size) * step_size, precision).
\* The result is a decimal of `precision` places, returned in thousandths.
adjust_thousandths(quantity, step_size) ==
    LET precision == Abs(Exponent(step_size))
        step == FloatOf(step_size, 3)
        steps == FloorOfQuotient(FloatOf(quantity, 3), step)
    IN  RoundTo(FloatTimes(steps, step), precision) * Pow10(3 - precision)

\* adjust_to_step_size in quantity units (one unit is 5 thousandths).
ThousandthsPerUnit == 10 \div 2
adjust_units(quantity, step_size) ==
    adjust_thousandths(quantity * ThousandthsPerUnit, step_size * ThousandthsPerUnit)
        \div ThousandthsPerUnit

\* adjust_units on the steps and quantities the order and engine harnesses
\* meet, tabulated: the entry at quantity + 1 is the adjusted quantity.
\* InitAdjust holds only if every entry is what adjust_units computes.
AdjustKnown ==
    [step_size \in {2, 5, 10, 20} |->
      CASE step_size = 2 -> <<
        0, 0, 2, 2, 4, 4, 6, 6, 8, 8, 10, 10, 12, 12, 14, 14, 16, 16, 18, 18,
        20, 20, 22, 22, 24, 24, 26, 26, 28, 28, 30, 30, 32, 32, 34, 34, 36,
        36, 38, 38, 40, 40, 42, 42, 44, 44, 46, 46, 48, 48, 50, 50, 52, 52,
        54, 54, 56, 56, 56, 58, 60, 60, 62, 62, 64, 64, 66, 66, 68, 68, 70,
        70, 72, 72, 74, 74, 76, 76, 78, 78, 80, 80, 82, 82, 84, 84, 86, 86,
        88, 88, 90, 90, 92, 92, 92, 94, 96, 96, 98, 98, 100>>
        [] step_size = 5 -> <<
        0, 0, 0, 0, 0, 6, 6, 6, 6, 6, 10, 10, 10, 10, 10, 10, 16, 16, 16, 16,
        20, 20, 20, 20, 20, 24, 24, 24, 24, 24, 24, 30, 30, 30, 30, 30, 36,
        36, 36, 36, 40, 40, 40, 40, 40, 46, 46, 46, 46, 46, 50, 50, 50, 50,
        50, 56, 56, 56, 56, 56, 56, 60, 60, 60, 60, 66, 66, 66, 66, 66, 66,
        70, 70, 70, 70, 76, 76, 76, 76, 76, 80, 80, 80, 80, 80, 86, 86, 86,
        86, 86, 90, 90, 90, 90, 90, 90, 96, 96, 96, 96, 100>>
        [] step_size = 10 -> <<
        0, 0, 0, 0, 0, 0, 0, 0, 0, 0, 10, 10, 10, 10, 10, 10, 10, 10, 10, 10,
        20, 20, 20, 20, 20, 20, 20, 20, 20, 20, 20, 30, 30, 30, 30, 30, 30,
        30, 30, 30, 40, 40, 40, 40, 40, 40, 40, 40, 40, 40, 50, 50, 50, 50,
        50, 50, 50, 50, 50, 50, 50, 60, 60, 60, 60, 60, 60, 60, 60, 60, 60,
        70, 70, 70, 70, 70, 70, 70, 70, 70, 80, 80, 80, 80, 80, 80, 80, 80,
        80, 80, 90, 90, 90, 90, 90, 90, 90, 90, 90, 90, 100>>
        [] step_size = 20 -> <<
        0, 0, 0, 0, 0, 0, 0, 0, 0, 0, 0, 0, 0, 0, 0, 0, 0, 0, 0, 0, 20, 20,
        20, 20, 20, 20, 20, 20, 20, 20, 20, 20, 20, 20, 20, 20, 20, 20, 20,
        20, 40, 40, 40, 40, 40, 40, 40, 40, 40, 40, 40, 40, 40, 40, 40, 40,
        40, 40, 40, 40, 40, 60, 60, 60, 60, 60, 60, 60, 60, 60, 60, 60, 60,
        60, 60, 60, 60, 60, 60, 60, 80, 80, 80, 80, 80, 80, 80, 80, 80, 80,
        80, 80, 80, 80, 80, 80, 80, 80, 80, 80, 100>>]

AdjustKnownQuantities == 0..100

adjust_to_step_size(quantity, step_size) == AdjustKnown[step_size][quantity + 1]

\* No call of the adjust harness yet.
AdjustIdle ==
    [pc |-> "idle", quantity |-> 0, step_size |-> 1, result |-> 0, again |-> 0]

\* Mutant of Halve: the retry keeps the quantity.
Halve_Keeps(quantity) == quantity

\* quantity /= 2 (exact: an adjusted quantity is an even number of units).
Halve(quantity) == quantity \div 2

IdleCall ==
    [pc |-> "idle", attempt |-> 0, quantity |-> 0, requested |-> 0,
     min_qty |-> 0, step_size |-> 0, reduce_only |-> FALSE,
     sent |-> <<>>, resps |-> <<>>, accepted |-> 0, result |-> FALSE]

\* _safe_order up to its loop: attempt = 0, the symbol's filters fetched.
so_start(quantity, min_qty, step_size, reduce_only) ==
    [pc |-> "loop", attempt |-> 0, quantity |-> quantity, requested |-> quantity,
     min_qty |-> min_qty, step_size |-> step_size, reduce_only |-> reduce_only,
     sent |-> <<>>, resps |-> <<>>, accepted |-> 0, result |-> FALSE]

\* Mutant of so_loop: no retry budget.
so_loop_NoBudget(c) ==
    LET q == adjust_to_step_size(c.quantity, c.step_size)
    IN  [c EXCEPT !.quantity = q, !.sent = Append(@, q), !.pc = "sent"]

\* The head of the while loop: within the budget the quantity is adjusted and
\* the order sent, beyond it the call returns False.
so_loop(c) ==
    IF c.attempt < max_retries
    THEN LET q == adjust_to_step_size(c.quantity, c.step_size)
         IN  [c EXCEPT !.quantity = q, !.sent = Append(@, q), !.pc = "sent"]
    ELSE [c EXCEPT !.pc = "returned", !.result = FALSE]

\* Mutant of so_response: every API rejection is retried like a filter rejection.
so_response_RetriesAll(c, r) ==
    LET d == [c EXCEPT !.resps = Append(@, r)]
    IN  IF r.kind = "ok"
        THEN [d EXCEPT !.pc = "returned", !.result = TRUE, !.accepted = @ + 1]
        ELSE IF r.kind = "exc"
        THEN [d EXCEPT !.pc = "raised"]
        ELSE LET q == Halve(c.quantity)
             IN  IF q < c.min_qty
                 THEN [d EXCEPT !.quantity = q, !.pc = "returned", !.result = FALSE]
                 ELSE [d EXCEPT !.quantity = q, !.attempt = @ + 1, !.pc = "loop"]

\* What _safe_order does with the venue's answer to the order it sent.
so_response(c, r) ==
    LET d == [c EXCEPT !.resps = Append(@, r)]
    IN  IF r.kind = "ok"
        THEN [d EXCEPT !.pc = "returned", !.result = TRUE, !.accepted = @ + 1]
        ELSE IF r.kind = "exc"
        THEN [d EXCEPT !.pc = "raised"]
        ELSE IF r.code \in FILTER_CODES
        THEN LET q == Halve(c.quantity)
             IN  IF q < c.min_qty
                 THEN [d EXCEPT !.quantity = q, !.pc = "returned", !.result = FALSE]
                 ELSE [d EXCEPT !.quantity = q, !.attempt = @ + 1, !.pc = "loop"]
        ELSE IF r.code = REDUCE_ONLY_REJECTED
        THEN [d EXCEPT !.pc = "returned", !.result = TRUE]
        ELSE [d EXCEPT !.pc = "returned", !.result = FALSE]

\* ------------------------------------------------------------------ Engine
\* Time is in ticks: the trade throttle and the exit timeout are one tick each.
\* z-scores and their thresholds are in tenths.
CAPITAL_PER_TRADE == 15
TRADE_SLEEP == 1
EXIT_TIMEOUT_SECONDS == 1
entry_z == 15
exit_z == 5
ALLOW_SHORT_SPREAD == FALSE
allow_short == FALSE

\* The minimum holding time the Engine is to enforce, in ticks; configs/config.py
\* has no such setting, any positive value stands for it.
MIN_HOLDING_TIME == 1

\* The flags the Engine reads: the price source (USE_WEBSOCKET, else
\* USE_MID_PRICE, else the last price) and USE_BOOK_BASED_EXIT.
Configs == [mode : {"ws", "mid", "last"}, book_exit : BOOLEAN]

\* time.time() when the Engine starts: far beyond last_trade_time = 0.
Epoch == TRADE_SLEEP + 1

\* The z-scores (in tenths) a signal call may compute from the spread history.
ZValues == {0 - 20, 0 - 10, 0, 10}

\* Book-ticker messages per market, and what a mid-price poll may return.
QuoteMsgs(market) ==
    IF market = "spot"
    THEN {[b |-> 199, a |-> 200], [b |-> 201, a |-> 202]}
    ELSE {[b |-> 201, a |-> 202]}
PolledQuotes == {[sa |-> 200, fb |-> 201], [sa |-> 201, fb |-> 200]}
ExitPrices == {200, 201}

NoQuote == [bid |-> NoneVal, ask |-> NoneVal]

\* The venue's filters of the symbol, per market, and the NOTIONAL filter's
\* minNotional (5 USD = 2000 tick * units).
VenueFilter(market) ==
    IF market = "spot" THEN [min_qty |-> 10, step_size |-> 10]
    ELSE [min_qty |-> 20, step_size |-> 20]
MinNotional == 5 * 400

RoundDiv(a, b) ==
    LET q == a \div b
        r == a % b
    IN  IF 2 * r < b THEN q
        ELSE IF 2 * r > b THEN q + 1
        ELSE IF q % 2 = 0 THEN q ELSE q + 1

\* qty = round(capital / fut_price, 6), in quantity units (15 USD at 1 tick buy
\* 6000 units).
QtyFor(fut_price) == RoundDiv(CAPITAL_PER_TRADE * 400, fut_price)

\* Mutant of check_signal: the exits by direction are left out.
check_signal_NoExit(z, entryz, exitz, last_signal, allowshort) ==
    IF Abs(z) < exitz THEN 0
    ELSE IF z > entryz /\ allowshort THEN 0 - 1
    ELSE IF z < 0 - entryz THEN 1
    ELSE 2

\* check_signal of the spread model: the hysteresis state machine on z.
check_signal(z, entryz, exitz, last_signal, allowshort) ==
    IF last_signal = 1 /\ z >= exitz THEN 0
    ELSE IF last_signal = 0 - 1 /\ z <= 0 - exitz THEN 0
    ELSE IF Abs(z) < exitz THEN 0
    ELSE IF z > entryz /\ allowshort THEN 0 - 1
    ELSE IF z < 0 - entryz THEN 1
    ELSE 2

\* Mutant of model_update: the filled flag follows the pointer.
model_update_NoLatch(m) ==
    LET p == (m.ptr + 1) % Lookback
    IN  [m EXCEPT !.ptr = p, !.filled = (p = 0)]

\* SpreadModel.update: one observation written, the pointer advanced, the
\* filled latch set when the pointer wraps.
model_update(m) ==
    LET p == (m.ptr + 1) % Lookback
    IN  [m EXCEPT !.ptr = p, !.filled = IF p = 0 THEN TRUE ELSE @]

\* SpreadModel.update with the history: the spread is written at the pointer.
update(m, spot_price, futures_price) ==
    [model_update(m) EXCEPT !.hist[m.ptr + 1] = spot_price - futures_price]

\* KalmanSpreadModel.update, as far as readiness goes: the first call latches.
kalman_update(m) == [m EXCEPT !.filled = TRUE]

\* KalmanSpreadModel.update with the mean: the first observation is taken as
\* it is; afterwards kf_update moves mu towards the observation by a gain
\* between 0 and 1, so the new mu is some value from mu to y.
KalmanMeans(m, y) ==
    IF ~m.filled THEN {y}
    ELSE {v \in Int : (m.mu <= v /\ v <= y) \/ (y <= v /\ v <= m.mu)}

\* SpreadModel.ready / KalmanSpreadModel.ready.
ready(m) == m.filled

\* compute_signal of the Kalman variant: the signal and the new direction.
compute_signal(z, entryz, exitz, allowshort, last_entry) ==
    IF last_entry = 1 /\ z >= exitz THEN [sig |-> 0, last |-> 0]
    ELSE IF last_entry = 0 - 1 /\ z <= 0 - exitz THEN [sig |-> 0, last |-> 0]
    ELSE IF Abs(z) < exitz THEN [sig |-> 0, last |-> 0]
    ELSE IF z > entryz /\ allowshort THEN [sig |-> 0 - 1, last |-> 0 - 1]
    ELSE IF z < 0 - entryz THEN [sig |-> 1, last |-> 1]
    ELSE [sig |-> 2, last |-> last_entry]

\* get_signal of either variant on z: the value returned and the model after.
get_signal(m, z) ==
    IF ~ready(m) THEN [sig |-> 0, m |-> m]
    ELSE IF m.variant = "classical"
    THEN LET sig == check_signal(z, entry_z, exit_z, m.entry_signal, m.allow_short)
         IN  [sig |-> sig,
              m |-> IF sig \in {0 - 1, 1} THEN [m EXCEPT !.entry_signal = sig] ELSE m]
    ELSE LET r == compute_signal(z, entry_z, exit_z, m.allow_short, m.entry_signal)
         IN  [sig |-> r.sig, m |-> [m EXCEPT !.entry_signal = r.last]]

\* compute_expected_profit / exp_profit: abs(spread - mean), the mean given as
\* the fraction num / den; the result is den times the profit.
compute_expected_profit(spread, num, den) == Abs(spread * den - num)

\* calculate_expected_tc of either variant, in 1/TCDen of a price tick.
calculate_expected_tc(variant, spot, futures, tc) ==
    IF variant = "classical" THEN 2 * (spot * tc + futures * tc)
    ELSE 2 * (spot + futures) * tc

RECURSIVE SumSeq(_)
SumSeq(q) == IF q = <<>> THEN 0 ELSE Head(q) + SumSeq(Tail(q))

\* The mean the economic filter compares with, as a fraction: np.mean of the
\* whole history for a ready classical model, mu for the Kalman variant.
ModelMean(m) ==
    IF m.variant = "classical" THEN [num |-> SumSeq(m.hist), den |-> Len(m.hist)]
    ELSE [num |-> m.mu, den |-> 1]

\* Mutant of get_economic_signal: the profit has to exceed the cost.
get_economic_signal_Strict(m, spot, futures, tc) ==
    IF ~ready(m) THEN FALSE
    ELSE LET mean == ModelMean(m)
             expected_profit == compute_expected_profit(spot - futures, mean.num, mean.den)
             expected_cost == calculate_expected_tc(m.variant, spot, futures, tc)
         IN  expected_profit * TCDen > expected_cost * mean.den

\* get_economic_signal: expected_profit >= expected_cost for a ready model.
get_economic_signal(m, spot, futures, tc) ==
    IF ~ready(m) THEN FALSE
    ELSE LET mean == ModelMean(m)
             expected_profit == compute_expected_profit(spot - futures, mean.num, mean.den)
             expected_cost == calculate_expected_tc(m.variant, spot, futures, tc)
         IN  expected_profit * TCDen >= expected_cost * mean.den

\* A model of the harness before its first update.  updates counts the calls of
\* update; ret and z are the last get_signal's result and z-score; armed: a
\* get_signal has returned +1 and none has returned 0 since; was_armed: armed
\* before the last get_signal.  hist is spread_history, mu the Kalman mean;
\* econ is the last get_economic_signal: its prices, whether the model was
\* ready, the mean it used, and its answer.  held is the direction remembered
\* before the last get_signal; twin is the other variant fed the same z-scores
\* from the same start: its direction and its last answer.
NoEcon ==
    [called |-> FALSE, spot |-> 0, futures |-> 0, ready |-> FALSE,
     mean |-> [num |-> 0, den |-> 1], result |-> FALSE]

ModelIdle ==
    [variant |-> "classical", allow_short |-> FALSE, ptr |-> 0, filled |-> FALSE,
     entry_signal |-> 0, hist |-> [k \in 1..Lookback |-> 0], mu |-> 0,
     updates |-> 0, ret |-> NoneVal, z |-> 0,
     armed |-> FALSE, was_armed |-> FALSE, econ |-> NoEcon,
     held |-> 0, twin |-> [entry_signal |-> 0, ret |-> NoneVal]]

\* ---- PriceCache._listen
\* backoff starts at BackoffBase (line 57) and doubles up to BackoffCap (line 81).
BackoffBase == 1
BackoffCap == 32
Min(a, b) == IF a <= b THEN a ELSE b

\* Mutant of quote_changed: every message counts as a change.
quote_changed_Always(c, market, m) == TRUE

\* changed: the message's bid or ask is not the stored one (lines 66, 70).
quote_changed(c, market, m) == m.b # c[market].bid \/ m.a # c[market].ask

\* One listener.  pc: "connect" (about to call websockets.connect), "open"
\* (receiving), "sleep" (in asyncio.sleep(backoff)), "returned".  delay is the
\* argument of the last sleep; received: the connection now open has
\* delivered a message; after_conn: the sleep now running follows a
\* connection that had delivered one.
Listener ==
    [pc |-> "connect", backoff |-> BackoffBase, delay |-> NoneVal,
     received |-> FALSE, after_conn |-> FALSE]

\* Mutant of on_exception: the error ends the listener.
on_exception_Returns(L) == [L EXCEPT !.pc = "returned"]

\* except Exception (lines 79-80): the listener sleeps for backoff.
on_exception(L) ==
    [L EXCEPT !.pc = "sleep", !.delay = L.backoff, !.after_conn = L.received,
              !.received = FALSE]

\* Line 81, after the sleep: the backoff doubles up to the cap; the loop goes on.
after_sleep(L) ==
    [L EXCEPT !.pc = "connect", !.backoff = Min(L.backoff * 2, BackoffCap),
              !.after_conn = FALSE]

\* Line 76: the iteration over the messages ended with a normal close.
normal_close(L) == [L EXCEPT !.pc = "connect", !.backoff = BackoffBase, !.received = FALSE]

\* The feed before start(): both listeners at their first connect; last is
\* what the last message processed did (kind "none" once a consumer has
\* cleared the event): whether it differed, and the event before it.
FeedIdle ==
    [spot |-> Listener, futures |-> Listener,
     last |-> [kind |-> "none", ev_before |-> FALSE]]

\* The Quote Feed's mid(leg): None until the leg has a bid and an ask.
HasMid(q) == q.bid # NoneVal /\ q.ask # NoneVal

\* ---- one _safe_order call run for the Engine
\* The Engine reads a call's state and result only: the history of what was
\* sent and answered is dropped.
Compact(c) == [c EXCEPT !.sent = <<>>, !.resps = <<>>]

NoLeg ==
    [c |-> IdleCall, market |-> "spot", side |-> "BUY", catch |-> FALSE]

\* A leg that submits an order: _safe_order up to its first create_order.
LegOrder(market, side, qty, reduce_only, catch) ==
    [c |-> Compact(so_loop(so_start(qty, VenueFilter(market).min_qty,
                                    VenueFilter(market).step_size, reduce_only))),
     market |-> market, side |-> side, catch |-> catch]

\* A leg that is about to run close_spot_position / close_futures_position.
LegClose(market) ==
    [c |-> [IdleCall EXCEPT !.pc = "pre"], market |-> market, side |-> "SELL",
     catch |-> TRUE]

\* async_margin_sell: OrderManager has no margin_sell, the call raises at once.
LegMarginSell ==
    [c |-> [IdleCall EXCEPT !.pc = "raised"], market |-> "spot", side |-> "SELL",
     catch |-> FALSE]

LegReturns(lg, value) ==
    [lg EXCEPT !.c = [IdleCall EXCEPT !.pc = "returned", !.result = value]]

\* close_spot_position / close_futures_position up to the order: an exception
\* of a query returns False, nothing to close returns True, else the holding is
\* sold (spot) or reduced (futures).
close_position_pre(lg, v, failed, spot_price) ==
    IF failed THEN LegReturns(lg, FALSE)
    ELSE IF lg.market = "spot"
    THEN IF v.spot <= VenueFilter("spot").min_qty \/ spot_price * v.spot <= MinNotional
         THEN LegReturns(lg, TRUE)
         ELSE LegOrder("spot", "SELL", v.spot, FALSE, TRUE)
    ELSE IF v.fut = 0
         THEN LegReturns(lg, TRUE)
         ELSE LegOrder("fut", IF v.fut > 0 THEN "SELL" ELSE "BUY", Abs(v.fut), TRUE, TRUE)

\* The venue's answer taken by the call, the next order sent when the call
\* retries; a helper that catches exceptions returns False instead of raising.
leg_response(lg, r) ==
    LET d == so_response(lg.c, r)
        e == IF d.pc = "loop" THEN so_loop(d) ELSE d
        f == IF e.pc = "raised" /\ lg.catch
             THEN [e EXCEPT !.pc = "returned", !.result = FALSE]
             ELSE e
    IN  [lg EXCEPT !.c = Compact(f)]

LegDone(lg) == lg.c.pc \in {"returned", "raised"}
LegStatus(lg) ==
    IF lg.c.pc = "raised" THEN "X"
    ELSE IF lg.c.pc = "returned" THEN (IF lg.c.result THEN "T" ELSE "F")
    ELSE "-"

\* ---- the venue
\* Whether the venue can fill the order a leg has sent, and the holdings after.
CanFill(lg, v) ==
    LET q == lg.c.quantity
    IN  /\ q > 0
        /\ IF lg.market = "spot"
           THEN IF lg.side = "BUY" THEN v.spot + q <= MaxHolding ELSE q <= v.spot
           ELSE IF lg.c.reduce_only
                THEN IF lg.side = "SELL" THEN q <= v.fut ELSE q <= 0 - v.fut
                ELSE IF lg.side = "SELL" THEN v.fut - q >= 0 - MaxHolding
                     ELSE v.fut + q <= MaxHolding

Fill(lg, v) ==
    LET q == lg.c.quantity
    IN  IF lg.market = "spot"
        THEN [v EXCEPT !.spot = IF lg.side = "BUY" THEN @ + q ELSE @ - q]
        ELSE [v EXCEPT !.fut = IF lg.side = "BUY" THEN @ + q ELSE @ - q]

\* ---- the signal loop
\* got: the quantity the venue accepted on each leg of the attempt.
FreshAttempt ==
    [spot |-> "-", fut |-> "-", done |-> FALSE,
     recorded |-> FALSE, swept |-> FALSE, got |-> [spot |-> 0, fut |-> 0]]

\* What an iteration decided about the exit: the signal after the directional
\* constraint, whether a position was open, whether close_position was
\* called, and the book (spot bid, futures ask) and time it decided on.
NoExit ==
    [signal |-> NoneVal, open |-> FALSE, closing |-> FALSE,
     bid |-> NoneVal, ask |-> NoneVal, t |-> NoneVal]

\* The times at which the last two entry attempts (calls of open_position)
\* began, and whether each ended with a position recorded.
NoTries ==
    [prev |-> NoneVal, prev_ok |-> FALSE, last |-> NoneVal, ok |-> FALSE]

\* What the iteration of the latest entry attempt had seen: whether a position
\* was open, the signal, and whether the economic filter and the executability
\* check were evaluated on a book and passed.
NoEntry ==
    [open |-> FALSE, signal |-> NoneVal, viable |-> FALSE, executable |-> FALSE]

\* An iteration that ended early: why (the model not ready, a price missing),
\* whether it raised, and whether it left ledger, direction and orders alone.
NoSkip == [why |-> "none", raised |-> FALSE, kept |-> TRUE]

\* What the two close helpers of the iteration's close_position reported, and
\* whether the sweep ran after them.
NoClose == [spot |-> "-", fut |-> "-", swept |-> FALSE]

\* The model loop so far: how many cycles fed an observation (counted up to
\* Lookback), what the last cycle did, and whether it left the model as it was.
NoCycle == [fed |-> 0, last |-> "none", kept |-> TRUE]

\* Mutant of model_cycle: a cycle with a missing leg feeds the model as well.
model_cycle_FeedsAlways(m, i) == model_update(m)

\* One cycle of _model_loop (lines 104-118): the model is updated when both
\* prices are there; a failed mid-price fetch raises into the loop's handler.
model_cycle(m, i) ==
    IF i.err THEN m
    ELSE IF i.ok THEN model_update(m)
    ELSE m

\* Whether the iteration passed the entry gate and the throttle, and whether
\* it then submitted the two entry legs.
NoTrade == [gate |-> FALSE, legs |-> FALSE]

EngineIdle ==
    [pc |-> "top", raw |-> 0, signal |-> 0, spot_ask |-> NoneVal, fut_bid |-> NoneVal,
     qty |-> 0, t0 |-> 0, after |-> "none", phase |-> "spot", liq_spot |-> FALSE]

\* The engine's state as one record: the operators below map it to the state
\* after a piece of the signal loop.
St ==
    [pm |-> pm, model |-> model, eng |-> eng, legs |-> legs,
     last_trade_time |-> last_trade_time, entry_timestamp |-> entry_timestamp,
     obs |-> obs]

\* The iteration is over: its locals are dead, the loop goes to its wait.
to_wait(S) ==
    [S EXCEPT !.eng = [EngineIdle EXCEPT !.pc = "wait"],
              !.obs.exit.bid = NoneVal, !.obs.exit.ask = NoneVal,
              !.obs.exit.t = NoneVal]

\* liquidate_all_positions: the sweep starts with the spot close.
liquidate_all_positions(S, after) ==
    [S EXCEPT !.eng.pc = "liq", !.eng.after = after, !.eng.phase = "spot",
              !.eng.liq_spot = FALSE, !.legs.liq = LegClose("spot")]

\* _signal_loop after open_position has returned: lines 178-179.
after_open(S) ==
    to_wait([S EXCEPT !.last_trade_time = S.eng.t0, !.entry_timestamp = S.eng.t0,
                      !.obs.tries.ok = S.obs.att.recorded])

\* open_position up to its gather: the quantity, then both legs submitted; a
\* fut_price of None raises (TypeError) into the except branch.
open_position(S, direction, spot_price, fut_price) ==
    IF fut_price = NoneVal
    THEN liquidate_all_positions(
            [S EXCEPT !.obs.att = [FreshAttempt EXCEPT !.done = TRUE, !.swept = TRUE]],
            "opened")
    ELSE LET qty == QtyFor(fut_price)
         IN  [S EXCEPT
                !.eng.pc = "opening", !.eng.qty = qty, !.eng.signal = direction,
                !.eng.spot_ask = spot_price, !.eng.fut_bid = fut_price,
                !.legs.spot = IF direction = 1
                              THEN LegOrder("spot", "BUY", qty, FALSE, FALSE)
                              ELSE LegMarginSell,
                !.legs.fut = LegOrder("fut", IF direction = 1 THEN "SELL" ELSE "BUY",
                                      qty, FALSE, FALSE),
                !.obs.att = FreshAttempt]

\* Mutant of EntryAllowed: the entry does not look at the ledger.
EntryAllowed_IgnoresLedger(l, signal, economic_signal, entry_cond) ==
    signal \in {1, 0 - 1} /\ economic_signal /\ entry_cond

\* The entry condition of _signal_loop (lines 169-174).
EntryAllowed(l, signal, economic_signal, entry_cond) ==
    ~l.is_open /\ signal \in {1, 0 - 1} /\ economic_signal /\ entry_cond

\* What open_position has done by its first await: both legs sent, or not.
submitted(T) ==
    [T EXCEPT !.obs.trade =
        [gate |-> TRUE,
         legs |-> /\ T.eng.pc = "opening"
                  /\ T.legs.spot.c.pc = "sent"
                  /\ T.legs.fut.c.pc = "sent"]]

\* The iteration calls open_position at time t: the attempt is noted.
entry_attempt(S, signal, spot_ask, fut_bid, economic_signal, t) ==
    LET checked == spot_ask # NoneVal /\ fut_bid # NoneVal
    IN  submitted(open_position(
            [S EXCEPT !.eng.t0 = t,
                      !.obs.tries = [prev |-> @.last, prev_ok |-> @.ok,
                                     last |-> t, ok |-> FALSE],
                      !.obs.entry = [open |-> S.pm.is_open, signal |-> signal,
                                     viable |-> checked /\ economic_signal,
                                     executable |-> checked /\ fut_bid > spot_ask]],
            signal, spot_ask, fut_bid))

\* Mutant of entry_eval: no trade-interval throttle.
entry_eval_NoThrottle(S, signal, spot_ask, fut_bid, economic_signal, entry_cond, t) ==
    IF EntryAllowed(S.pm, signal, economic_signal, entry_cond)
    THEN entry_attempt(S, signal, spot_ask, fut_bid, economic_signal, t)
    ELSE to_wait(S)

\* _signal_loop lines 160-179: the economic filter and the entry condition,
\* the trade-interval throttle, then open_position.
entry_eval(S, signal, spot_ask, fut_bid, economic_signal, entry_cond, t) ==
    IF EntryAllowed(S.pm, signal, economic_signal, entry_cond)
    THEN IF t - S.last_trade_time > TRADE_SLEEP
         THEN entry_attempt(S, signal, spot_ask, fut_bid, economic_signal, t)
         ELSE to_wait(S)
    ELSE to_wait(S)

\* Mutant of entry_condition: every book is executable.
entry_condition_Always(mode, spot_ask, fut_bid) == TRUE

\* should_enter_long / get_entry_signal: fut_bid > spot_ask; True when the
\* prices are left None (last-price polling).
entry_condition(mode, spot_ask, fut_bid) ==
    IF mode = "last" THEN TRUE ELSE fut_bid > spot_ask

\* Mutant of should_exit_long: every exit signal is executable.
should_exit_long_Always(S, q, t) == TRUE

\* should_exit_long: the mark-to-market PnL at (spot bid, futures ask) is not
\* negative, or the position is older than EXIT_TIMEOUT_SECONDS.
should_exit_long(S, q, t) ==
    LET time_in_trade == IF S.entry_timestamp = NoneVal THEN 0
                         ELSE t - S.entry_timestamp
        exit_executable ==
            /\ q.futures.ask # NoneVal
            /\ q.spot.bid # NoneVal
            /\ calc_total_pnl(S.pm, q.spot.bid, q.futures.ask).value >= 0
        timeout == time_in_trade > EXIT_TIMEOUT_SECONDS
    IN  exit_executable \/ timeout

\* close_position up to its gather: both close helpers started.
close_position(S) ==
    [S EXCEPT !.eng.pc = "closing", !.obs.exit.closing = TRUE,
              !.legs.spot = LegClose("spot"),
              !.legs.fut = LegClose("fut")]

\* _signal_loop lines 148-179 on the model's answer sig: the directional
\* constraint, the exit path, the entry path.  raw keeps the model's answer.
signal_dispatch(S, sig, i, c, q, t) ==
    LET signal == IF sig = 0 - 1 /\ ~ALLOW_SHORT_SPREAD THEN 0 ELSE sig
        S1 == [S EXCEPT !.eng.raw = sig, !.eng.signal = signal,
                        !.eng.spot_ask = i.sa, !.eng.fut_bid = i.fb,
                        !.obs.exit = [signal |-> signal, open |-> S.pm.is_open,
                                      closing |-> FALSE, bid |-> q.spot.bid,
                                      ask |-> q.futures.ask, t |-> t]]
        enter == entry_eval(S1, signal, i.sa, i.fb, i.econ,
                            entry_condition(c.mode, i.sa, i.fb), t)
    IN  IF S.pm.is_open /\ signal = 0
        THEN IF c.book_exit
             THEN IF c.mode # "ws" THEN to_wait(S1)
                  ELSE IF should_exit_long(S1, q, t) THEN close_position(S1)
                  ELSE enter
             ELSE close_position(S1)
        ELSE enter

\* _signal_loop lines 123-142: the iteration S -> T ends before the signal is
\* computed.
skipped(S, T, why, raised) ==
    [T EXCEPT !.obs.skip =
        [why |-> why, raised |-> raised,
         kept |-> /\ T.pm = S.pm
                  /\ T.model.entry_signal = S.model.entry_signal
                  /\ T.legs = S.legs]]

\* One iteration of _signal_loop from its top to its first await on orders or to
\* its wait.  i: what the price source and the model give this iteration.
signal_iteration(S, i, c, q, t) ==
    IF ~S.model.filled THEN skipped(S, S, "not_ready", FALSE)
    ELSE IF i.err THEN skipped(S, to_wait(S), "no_price", TRUE)
    ELSE IF ~i.ok THEN skipped(S, S, "no_price", FALSE)
    ELSE
      LET sig == check_signal(i.z, entry_z, exit_z, S.model.entry_signal, allow_short)
          m == IF sig \in {0 - 1, 1} THEN [S.model EXCEPT !.entry_signal = sig]
               ELSE S.model
      IN  signal_dispatch([S EXCEPT !.model = m], sig, i, c, q, t)

\* One iteration with a model that answers sig, whatever its history.
signal_iteration_stub(S, sig, i, c, q, t) ==
    IF ~S.model.filled THEN skipped(S, S, "not_ready", FALSE)
    ELSE IF i.err THEN skipped(S, to_wait(S), "no_price", TRUE)
    ELSE IF ~i.ok THEN skipped(S, S, "no_price", FALSE)
    ELSE signal_dispatch(S, sig, i, c, q, t)

EngineNotStarted ==
    /\ cfg = [mode |-> "ws", book_exit |-> TRUE]
    /\ cache = [spot |-> NoQuote, futures |-> NoQuote]
    /\ event = FALSE
    /\ model = [ptr |-> 0, filled |-> FALSE, entry_signal |-> 0]
    /\ eng = EngineIdle
    /\ legs = [spot |-> NoLeg, fut |-> NoLeg, liq |-> NoLeg]
    /\ venue = [spot |-> 0, fut |-> 0]
    /\ last_trade_time = 0
    /\ entry_timestamp = NoneVal
    /\ obs = [openRaised |-> FALSE, att |-> FreshAttempt, exit |-> NoExit,
            tries |-> NoTries, entry |-> NoEntry, skip |-> NoSkip,
            cls |-> NoClose, ml |-> NoCycle,
            trade |-> NoTrade]

\* ------------------------------------------------ the ledger on its own
\* Every public operation of one PositionManager, called in any order with
\* any arguments.
LedgerPrices == {200, 201, 202}
LedgerSizes == {30, 200}
TCValues == {0, 8}

NoCall ==
    [op |-> "none", raised |-> FALSE, before |-> EmptyLedger, a1 |-> 0, a2 |-> 0,
     value |-> 0, result |-> NoResult]

Prev(r) == [op |-> r.op, raised |-> r.raised]

InitLedger ==
    /\ now = 0
    /\ TC \in TCValues
    /\ pm = EmptyLedger
    /\ lret = NoCall
    /\ lprev = Prev(NoCall)
    /\ so = IdleCall
    /\ adj = AdjustIdle
    /\ EngineNotStarted
    /\ sm = ModelIdle
    /\ feed = FeedIdle

Tick ==
    /\ now < MaxClock
    /\ now' = now + 1
    /\ UNCHANGED <<TC, pm, lret, lprev, so, engineVars, adj, sm, feed>>

CallOpen ==
    \E side \in Sides, sp \in LedgerPrices, fp \in LedgerPrices, sz \in LedgerSizes :
        LET r == open(pm, side, sp, fp, sz, now)
        IN  /\ pm' = r.pm
            /\ lret' = [op |-> "open", raised |-> r.raised, before |-> pm,
                        a1 |-> sp, a2 |-> fp, value |-> sz, result |-> NoResult]
            /\ lprev' = Prev(lret)
            /\ UNCHANGED <<now, TC, nonLedger>>

CallClose ==
    \E se \in LedgerPrices, fe \in LedgerPrices :
        LET r == close(pm, se, fe, now, TC)
        IN  /\ pm' = r.pm
            /\ lret' = [op |-> "close", raised |-> r.raised, before |-> pm,
                        a1 |-> se, a2 |-> fe, value |-> 0, result |-> r.result]
            /\ lprev' = Prev(lret)
            /\ UNCHANGED <<now, TC, nonLedger>>

CallCalcTotalPnl ==
    \E s \in LedgerPrices, f \in LedgerPrices :
        LET r == calc_total_pnl(pm, s, f)
        IN  /\ lret' = [op |-> "calc_total_pnl", raised |-> r.raised, before |-> pm,
                        a1 |-> s, a2 |-> f, value |-> r.value, result |-> NoResult]
            /\ lprev' = Prev(lret)
            /\ UNCHANGED <<now, TC, pm, nonLedger>>

CallReset ==
    /\ pm' = reset(pm)
    /\ lret' = [op |-> "reset", raised |-> FALSE, before |-> pm,
                a1 |-> 0, a2 |-> 0, value |-> 0, result |-> NoResult]
    /\ lprev' = Prev(lret)
    /\ UNCHANGED <<now, TC, nonLedger>>

NextLedger ==
    \/ Tick
    \/ CallOpen
    \/ CallClose
    \/ CallCalcTotalPnl
    \/ CallReset

SpecLedger == InitLedger /\ [][NextLedger]_vars

\* ------------------------------------------ the Order Executor on its own
\* The venue's LOT_SIZE filter of a symbol (minQty, stepSize: 0.01, 0.1 and
\* 0.025) and the quantities asked for, in quantity units.
Filters ==
    {[min_qty |-> 2, step_size |-> 2], [min_qty |-> 20, step_size |-> 2],
     [min_qty |-> 20, step_size |-> 20], [min_qty |-> 5, step_size |-> 5]}
RequestQtys == {0, 3, 5, 30, 45, 91}

InitOrder ==
    /\ now = 0
    /\ TC \in TCValues
    /\ pm = EmptyLedger
    /\ lret = NoCall
    /\ lprev = Prev(NoCall)
    /\ so = IdleCall
    /\ adj = AdjustIdle
    /\ EngineNotStarted
    /\ sm = ModelIdle
    /\ feed = FeedIdle

\* A caller invokes _safe_order (the previous call, if any, is over).
OrderCall ==
    /\ so.pc \in {"idle", "returned", "raised"}
    /\ \E q \in RequestQtys, f \in Filters, ro \in BOOLEAN :
          so' = so_start(q, f.min_qty, f.step_size, ro)
    /\ UNCHANGED <<now, TC, nonOrder>>

OrderLoop ==
    /\ so.pc = "loop"
    /\ so' = so_loop(so)
    /\ UNCHANGED <<now, TC, nonOrder>>

OrderResponse ==
    /\ so.pc = "sent"
    /\ \E r \in Responses : so' = so_response(so, r)
    /\ UNCHANGED <<now, TC, nonOrder>>

NextOrder ==
    \/ OrderCall
    \/ OrderLoop
    \/ OrderResponse

SpecOrder == InitOrder /\ [][NextOrder]_vars


\* -------------------------------------------- adjust_to_step_size on its own
\* Quantities 0, 0.001, ... (thousandths) and the step sizes 0.001, 0.01, 0.1,
\* 0.025 and 0.25.
AdjustQuantities == 0..MaxAdjustQuantity
AdjustSteps == {1, 10, 100, 25, 250}

InitAdjust ==
    /\ \A st \in DOMAIN AdjustKnown, q \in AdjustKnownQuantities :
          AdjustKnown[st][q + 1] = adjust_units(q, st)
    /\ now = 0
    /\ TC \in TCValues
    /\ pm = EmptyLedger
    /\ lret = NoCall
    /\ lprev = Prev(NoCall)
    /\ so = IdleCall
    /\ EngineNotStarted
    /\ \E q \in AdjustQuantities, st \in AdjustSteps :
          adj = [AdjustIdle EXCEPT !.pc = "input", !.quantity = q, !.step_size = st]
    /\ sm = ModelIdle
    /\ feed = FeedIdle

\* adjust_to_step_size(quantity, step_size) is called.
AdjustCall ==
    /\ adj.pc = "input"
    /\ adj' = [adj EXCEPT !.pc = "adjusted",
                          !.result = adjust_thousandths(adj.quantity, adj.step_size)]
    /\ UNCHANGED nonAdjust

\* The result is adjusted again with the same step.
AdjustAgain ==
    /\ adj.pc = "adjusted"
    /\ adj' = [adj EXCEPT !.pc = "readjusted",
                          !.again = adjust_thousandths(adj.result, adj.step_size)]
    /\ UNCHANGED nonAdjust

NextAdjust ==
    \/ AdjustCall
    \/ AdjustAgain

SpecAdjust == InitAdjust /\ [][NextAdjust]_vars

\* ------------------------------------------------- the Spread Model on its own
\* Both variants, short spreads permitted or not; z-scores on both sides of
\* both thresholds.
MaxUpdates == 2 * Lookback + 1
ModelZValues == {0 - 20, 0 - 10, 0, 10, 20}
ModelPrices == {200, 201}

OtherVariant(v) == IF v = "classical" THEN "kalman" ELSE "classical"

InitModel ==
    /\ now = 0
    /\ TC \in TCValues
    /\ pm = EmptyLedger
    /\ lret = NoCall
    /\ lprev = Prev(NoCall)
    /\ so = IdleCall
    /\ EngineNotStarted
    /\ adj = AdjustIdle
    /\ \E v \in {"classical", "kalman"}, a \in BOOLEAN :
          sm = [ModelIdle EXCEPT !.variant = v, !.allow_short = a]
    /\ feed = FeedIdle

ModelUpdate ==
    /\ sm.updates < MaxUpdates
    /\ \E spot \in ModelPrices, fut \in ModelPrices :
          IF sm.variant = "classical"
          THEN sm' = [update(sm, spot, fut) EXCEPT !.updates = @ + 1]
          ELSE \E v \in (0 - 2)..2 :
                  /\ v \in KalmanMeans(sm, spot - fut)
                  /\ sm' = [kalman_update(sm) EXCEPT !.mu = v, !.updates = @ + 1]
    /\ UNCHANGED nonModel

ModelEconomic ==
    /\ \E spot \in ModelPrices, fut \in ModelPrices :
          sm' = [sm EXCEPT !.econ = [called |-> TRUE, spot |-> spot, futures |-> fut,
                                     ready |-> ready(sm), mean |-> ModelMean(sm),
                                     result |-> get_economic_signal(sm, spot, fut, TC)]]
    /\ UNCHANGED nonModel

ModelGetSignal ==
    /\ \E z \in ModelZValues :
          LET r == get_signal(sm, z)
          IN  sm' = [r.m EXCEPT !.ret = r.sig, !.z = z, !.was_armed = sm.armed,
                                !.armed = IF r.sig = 1 THEN TRUE
                                          ELSE IF r.sig = 0 THEN FALSE ELSE @]
    /\ UNCHANGED nonModel

NextModel ==
    \/ ModelUpdate
    \/ ModelGetSignal
    \/ ModelEconomic

SpecModel == InitModel /\ [][NextModel]_vars

\* ------------------------------------- the two variants side by side
\* get_signal of one variant, and of the other variant on the same z-score
\* (ready when the first is, its own direction kept from call to call).
ModelGetSignalPair ==
    /\ \E z \in ModelZValues :
          LET r == get_signal(sm, z)
              tw == get_signal([sm EXCEPT !.variant = OtherVariant(sm.variant),
                                          !.entry_signal = sm.twin.entry_signal], z)
          IN  sm' = [r.m EXCEPT !.ret = r.sig, !.z = z, !.was_armed = sm.armed,
                                !.armed = IF r.sig = 1 THEN TRUE
                                          ELSE IF r.sig = 0 THEN FALSE ELSE @,
                                !.held = sm.entry_signal,
                                !.twin = [entry_signal |-> tw.m.entry_signal,
                                          ret |-> tw.sig]]
    /\ UNCHANGED nonModel

NextPair ==
    \/ ModelUpdate
    \/ ModelGetSignalPair

SpecPair == InitModel /\ [][NextPair]_vars

\* ---------------------------------------------------- the Quote Feed on its own
\* PriceCache.start: both listeners, each connecting, receiving, failing and
\* reconnecting on its own; a consumer that clears the event.
Markets == {"spot", "futures"}
FeedMsgs == {[b |-> 199, a |-> 200], [b |-> 199, a |-> 201]}

InitFeed ==
    /\ now = 0
    /\ TC = 8
    /\ pm = EmptyLedger
    /\ lret = NoCall
    /\ lprev = Prev(NoCall)
    /\ so = IdleCall
    /\ EngineNotStarted
    /\ adj = AdjustIdle
    /\ sm = ModelIdle
    /\ feed = FeedIdle

\* websockets.connect succeeds.
FeedConnected ==
    /\ \E l \in Markets :
          /\ feed[l].pc = "connect"
          /\ feed' = [feed EXCEPT ![l].pc = "open"]
    /\ UNCHANGED <<cache, event, nonFeed>>

\* websockets.connect raises.
FeedConnectFails ==
    /\ \E l \in Markets :
          /\ feed[l].pc = "connect"
          /\ feed' = [feed EXCEPT ![l] = on_exception(@)]
    /\ UNCHANGED <<cache, event, nonFeed>>

\* One well-formed message: lines 63-74.
FeedMessage ==
    /\ \E l \in Markets, m \in FeedMsgs :
          LET changed == quote_changed(cache, l, m)
          IN  /\ feed[l].pc = "open"
              /\ cache' = [cache EXCEPT ![l] = [bid |-> m.b, ask |-> m.a]]
              /\ event' = (event \/ changed)
              /\ feed' = [feed EXCEPT ![l].received = TRUE,
                                      !.last = IF m.b # cache[l].bid \/ m.a # cache[l].ask
                                               THEN [kind |-> "changed", ev_before |-> FALSE]
                                               ELSE [kind |-> "same", ev_before |-> event]]
    /\ UNCHANGED nonFeed

\* A message that json.loads, the key lookups or float() reject: nothing is
\* stored, the exception leaves the connection.
FeedMalformed ==
    /\ \E l \in Markets :
          /\ feed[l].pc = "open"
          /\ feed' = [feed EXCEPT ![l] = on_exception(@)]
    /\ UNCHANGED <<cache, event, nonFeed>>

\* The connection closes abnormally: the iteration raises ConnectionClosedError.
FeedAbnormalClose ==
    /\ \E l \in Markets :
          /\ feed[l].pc = "open"
          /\ feed' = [feed EXCEPT ![l] = on_exception(@)]
    /\ UNCHANGED <<cache, event, nonFeed>>

\* The connection closes normally: the iteration ends.
FeedNormalClose ==
    /\ \E l \in Markets :
          /\ feed[l].pc = "open"
          /\ feed' = [feed EXCEPT ![l] = normal_close(@)]
    /\ UNCHANGED <<cache, event, nonFeed>>

\* The sleep is over.
FeedWake(l) ==
    /\ feed[l].pc = "sleep"
    /\ feed' = [feed EXCEPT ![l] = after_sleep(@)]
    /\ UNCHANGED <<cache, event, nonFeed>>

FeedWakes ==
    \E l \in Markets : FeedWake(l)

\* A consumer: updated_event.clear() (async_bot.py line 186).
FeedConsumerClears ==
    /\ event
    /\ event' = FALSE
    /\ feed' = [feed EXCEPT !.last = [kind |-> "none", ev_before |-> FALSE]]
    /\ UNCHANGED <<cache, nonFeed>>

NextFeed ==
    \/ FeedConnected
    \/ FeedConnectFails
    \/ FeedMessage
    \/ FeedMalformed
    \/ FeedAbnormalClose
    \/ FeedNormalClose
    \/ FeedWakes
    \/ FeedConsumerClears

SpecFeed == InitFeed /\ [][NextFeed]_vars

\* asyncio runs every task that is ready: a sleep that is over returns.
SpecFeedFair ==
    SpecFeed /\ WF_vars(FeedWake("spot")) /\ WF_vars(FeedWake("futures"))

\* ---------------------------------------------------------------- the Engine
\* Bot.__init__ and the start of both loops: nothing held, no quote received,
\* the model empty, the ledger closed.
Init ==
    /\ now = Epoch
    /\ TC = 8
    /\ pm = EmptyLedger
    /\ lret = NoCall
    /\ lprev = Prev(NoCall)
    /\ so = IdleCall
    /\ adj = AdjustIdle
    /\ cfg \in Configs
    /\ cache = [spot |-> NoQuote, futures |-> NoQuote]
    /\ event = FALSE
    /\ model = [ptr |-> 0, filled |-> FALSE, entry_signal |-> 0]
    /\ eng = EngineIdle
    /\ legs = [spot |-> NoLeg, fut |-> NoLeg, liq |-> NoLeg]
    /\ venue = [spot |-> 0, fut |-> 0]
    /\ last_trade_time = 0
    /\ entry_timestamp = NoneVal
    /\ obs = [openRaised |-> FALSE, att |-> FreshAttempt, exit |-> NoExit,
            tries |-> NoTries, entry |-> NoEntry, skip |-> NoSkip,
            cls |-> NoClose, ml |-> NoCycle,
            trade |-> NoTrade]
    /\ sm = ModelIdle
    /\ feed = FeedIdle

Set(S) ==
    /\ pm' = S.pm
    /\ model' = S.model
    /\ eng' = S.eng
    /\ legs' = S.legs
    /\ last_trade_time' = S.last_trade_time
    /\ entry_timestamp' = S.entry_timestamp
    /\ obs' = S.obs

\* The event loop runs its coroutines unless the signal loop has crashed or is
\* inside the synchronous sweep.
LoopFree == eng.pc \notin {"liq", "crashed"}

EngineTick ==
    /\ now < MaxTime
    /\ now' = now + 1
    /\ UNCHANGED <<pm, engineVars, nonEngine>>

\* PriceCache._listen: one book-ticker message stored, the event set when the
\* bid or the ask differs from the stored one.
QuoteUpdate ==
    /\ cfg.mode = "ws"
    /\ LoopFree
    /\ \E market \in {"spot", "futures"} :
         \E m \in QuoteMsgs(market) :
            LET changed == quote_changed(cache, market, m)
            IN  /\ cache' = [cache EXCEPT ![market] = [bid |-> m.b, ask |-> m.a]]
                /\ event' = (event \/ changed)
    /\ UNCHANGED <<now, pm, cfg, model, eng, legs, venue, last_trade_time,
                   entry_timestamp, obs, nonEngine>>

\* _model_loop: one iteration that has both prices and updates the model.
ModelLoop ==
    /\ LoopFree
    /\ cfg.mode = "ws" => HasMid(cache.spot) /\ HasMid(cache.futures)
    /\ model' = model_update(model)
    /\ UNCHANGED <<now, pm, cfg, cache, event, eng, legs, venue, last_trade_time,
                   entry_timestamp, obs, nonEngine>>

\* What the price source and the model give one iteration of the signal loop:
\* err: fetch_midpoint_prices failed (its two values do not unpack into four);
\* ok: both prices are there; sa, fb: spot ask and futures bid; z: the z-score;
\* econ: the economic filter.
SignalInputs ==
    IF cfg.mode = "ws"
    THEN {[err |-> FALSE, ok |-> HasMid(cache.spot) /\ HasMid(cache.futures),
           sa |-> cache.spot.ask, fb |-> cache.futures.bid, z |-> z, econ |-> e] :
            z \in ZValues, e \in BOOLEAN}
    ELSE IF cfg.mode = "mid"
    THEN {[err |-> FALSE, ok |-> TRUE, sa |-> q.sa, fb |-> q.fb, z |-> z, econ |-> e] :
            q \in PolledQuotes, z \in ZValues, e \in BOOLEAN}
         \cup {[err |-> TRUE, ok |-> FALSE, sa |-> NoneVal, fb |-> NoneVal,
                z |-> 0, econ |-> TRUE]}
    ELSE {[err |-> FALSE, ok |-> k, sa |-> NoneVal, fb |-> NoneVal, z |-> z,
           econ |-> TRUE] : k \in BOOLEAN, z \in ZValues}

\* No order thread of an earlier gather is still running (at most one set of
\* legs is followed at a time).
NoOrphan == \A l \in {"spot", "fut"} : legs[l].c.pc \notin {"pre", "sent"}

\* _signal_loop: one iteration, from the top to the await on the orders or to
\* the wait.
SignalLoop ==
    /\ eng.pc = "top"
    /\ NoOrphan
    /\ \E i \in SignalInputs :
          Set(signal_iteration([St EXCEPT !.obs.att = FreshAttempt, !.obs.exit = NoExit,
                             !.obs.skip = NoSkip, !.obs.cls = NoClose,
                             !.obs.trade = NoTrade], i, cfg, cache, now))
    /\ UNCHANGED <<now, cfg, cache, event, venue, nonEngine>>

\* A close helper reads the venue and either returns or sends its order.
LegPre ==
    \E l \in {"spot", "fut", "liq"} :
        /\ legs[l].c.pc = "pre"
        /\ \E failed \in BOOLEAN, p \in ExitPrices :
              legs' = [legs EXCEPT ![l] = close_position_pre(@, venue, failed, p)]
        /\ UNCHANGED <<now, pm, cfg, cache, event, model, eng, venue,
                       last_trade_time, entry_timestamp, obs, nonEngine>>

\* A leg whose gather has already raised: nobody reads its result.
Abandoned(l) == l # "liq" /\ eng.pc \notin {"opening", "closing"}

\* The venue answers the order a leg has sent.
LegResponse ==
    \E l \in {"spot", "fut", "liq"} :
        /\ legs[l].c.pc = "sent"
        /\ \E r \in Responses :
              LET lg == leg_response(legs[l], r)
              IN  /\ r.kind = "ok" => CanFill(legs[l], venue)
                  /\ legs' = [legs EXCEPT ![l] = IF Abandoned(l) /\ LegDone(lg)
                                                 THEN NoLeg ELSE lg]
                  /\ venue' = IF r.kind = "ok" THEN Fill(legs[l], venue) ELSE venue
        /\ UNCHANGED <<now, pm, cfg, cache, event, model, eng, last_trade_time,
                       entry_timestamp, obs, nonEngine>>

Accepted(lg) == IF lg.c.accepted > 0 THEN lg.c.quantity ELSE 0

Observed(S) ==
    [S EXCEPT !.obs.att.spot = LegStatus(S.legs.spot),
              !.obs.att.fut = LegStatus(S.legs.fut),
              !.obs.att.done = TRUE,
              !.obs.att.got = [spot |-> Accepted(S.legs.spot),
                               fut |-> Accepted(S.legs.fut)]]

\* The gather is over: the results of the finished legs have been taken.
Gathered(S) ==
    [S EXCEPT !.legs.spot = IF LegDone(@) THEN NoLeg ELSE @,
              !.legs.fut = IF LegDone(@) THEN NoLeg ELSE @]

\* Mutant of open_position_resume: one successful leg is enough to record.
open_position_resume_EitherLeg(S, t) ==
    IF S.legs.spot.c.result \/ S.legs.fut.c.result
    THEN LET r == open(S.pm, IF S.eng.signal = 1 THEN "LONG" ELSE "SHORT",
                       S.eng.spot_ask, S.eng.fut_bid, S.eng.qty, t)
         IN  IF r.raised
             THEN liquidate_all_positions(
                      Gathered([S EXCEPT !.obs.openRaised = TRUE, !.obs.att.swept = TRUE]),
                      "opened")
             ELSE after_open(Gathered([S EXCEPT !.pm = r.pm, !.obs.att.recorded = TRUE]))
    ELSE after_open(Gathered(S))

\* open_position after its gather has returned both results.
open_position_resume(S, t) ==
    IF S.legs.spot.c.result /\ S.legs.fut.c.result
    THEN LET r == open(S.pm, IF S.eng.signal = 1 THEN "LONG" ELSE "SHORT",
                       S.eng.spot_ask, S.eng.fut_bid, S.eng.qty, t)
         IN  IF r.raised
             THEN liquidate_all_positions(
                      Gathered([S EXCEPT !.obs.openRaised = TRUE, !.obs.att.swept = TRUE]),
                      "opened")
             ELSE after_open(Gathered([S EXCEPT !.pm = r.pm, !.obs.att.recorded = TRUE]))
    ELSE after_open(Gathered(S))

OpenResume ==
    /\ eng.pc = "opening"
    /\ legs.spot.c.pc = "returned"
    /\ legs.fut.c.pc = "returned"
    /\ Set(open_position_resume(Observed(St), now))
    /\ UNCHANGED <<now, cfg, cache, event, venue, nonEngine>>

\* open_position when a leg raised: the gather raises as soon as one leg does,
\* the except branch runs the sweep.
OpenRaise ==
    /\ eng.pc = "opening"
    /\ \E l \in {"spot", "fut"} : legs[l].c.pc = "raised"
    /\ Set(liquidate_all_positions(
              Gathered([Observed(St) EXCEPT !.obs.att.swept = TRUE]), "opened"))
    /\ UNCHANGED <<now, cfg, cache, event, venue, nonEngine>>

\* Mutant of entry_after_close: the entry is evaluated as on a LONG signal.
entry_after_close_Reenters(S, c, q, econ, t) ==
    LET sa == IF c.mode = "ws" THEN q.spot.ask ELSE S.eng.spot_ask
        fb == IF c.mode = "ws" THEN q.futures.bid ELSE S.eng.fut_bid
        has == sa # NoneVal /\ fb # NoneVal
    IN  entry_eval(S, 1, sa, fb,
                   IF c.mode = "ws" \/ has THEN econ ELSE TRUE,
                   IF c.mode = "ws" \/ has THEN fb > sa ELSE TRUE, t)

\* The entry evaluation that follows close_position in the same iteration.
entry_after_close(S, c, q, econ, t) ==
    LET sa == IF c.mode = "ws" THEN q.spot.ask ELSE S.eng.spot_ask
        fb == IF c.mode = "ws" THEN q.futures.bid ELSE S.eng.fut_bid
        has == sa # NoneVal /\ fb # NoneVal
    IN  entry_eval(S, S.eng.signal, sa, fb,
                   IF c.mode = "ws" \/ has THEN econ ELSE TRUE,
                   IF c.mode = "ws" \/ has THEN fb > sa ELSE TRUE, t)

\* close_position after its gather: both closed, the exit prices fetched and
\* the ledger closed (a failed fetch gives None prices, close raises and the
\* except branch runs the sweep); else only the warning.
close_position_resume(S0, c, q, prices, econ, t, tc) ==
    LET S == [S0 EXCEPT !.obs.cls.spot = LegStatus(S0.legs.spot),
                        !.obs.cls.fut = LegStatus(S0.legs.fut)]
    IN  IF S.legs.spot.c.result /\ S.legs.fut.c.result
        THEN LET r == close(S.pm, prices.spot, prices.fut, t, tc)
             IN  IF r.raised
                 THEN liquidate_all_positions(
                          Gathered([S EXCEPT !.obs.cls.swept = TRUE]), "closed")
                 ELSE entry_after_close(Gathered([S EXCEPT !.pm = r.pm]), c, q, econ, t)
        ELSE entry_after_close(Gathered(S), c, q, econ, t)

CloseResume ==
    /\ eng.pc = "closing"
    /\ legs.spot.c.pc = "returned"
    /\ legs.fut.c.pc = "returned"
    /\ \E prices \in {[spot |-> NoneVal, fut |-> NoneVal]}
                     \cup [spot : ExitPrices, fut : ExitPrices],
          econ \in BOOLEAN :
          Set(close_position_resume(St, cfg, cache, prices, econ, now, TC))
    /\ UNCHANGED <<now, cfg, cache, event, venue, nonEngine>>

\* Mutant of sweep_next: the sweep ends when the futures close alone succeeded.
sweep_next_FuturesOnly(S, c, q, econ, t) ==
    LET res == S.legs.liq.c.result
    IN  IF S.eng.phase = "spot"
        THEN [S EXCEPT !.eng.liq_spot = res, !.eng.phase = "fut",
                       !.legs.liq = LegClose("fut")]
        ELSE IF res
        THEN LET T == [S EXCEPT !.legs.liq = NoLeg, !.eng.phase = "spot",
                                !.eng.liq_spot = FALSE, !.eng.after = "none"]
             IN  IF S.eng.after = "opened" THEN after_open(T)
                 ELSE entry_after_close(T, c, q, econ, t)
        ELSE [S EXCEPT !.eng.liq_spot = FALSE, !.eng.phase = "spot",
                       !.legs.liq = LegClose("spot")]

\* liquidate_all_positions: one close helper has returned; after the futures
\* close the loop ends when both returned True, else it starts over.
sweep_next(S, c, q, econ, t) ==
    LET res == S.legs.liq.c.result
    IN  IF S.eng.phase = "spot"
        THEN [S EXCEPT !.eng.liq_spot = res, !.eng.phase = "fut",
                       !.legs.liq = LegClose("fut")]
        ELSE IF S.eng.liq_spot /\ res
        THEN LET T == [S EXCEPT !.legs.liq = NoLeg, !.eng.phase = "spot",
                                !.eng.liq_spot = FALSE, !.eng.after = "none"]
             IN  IF S.eng.after = "opened" THEN after_open(T)
                 ELSE entry_after_close(T, c, q, econ, t)
        ELSE [S EXCEPT !.eng.liq_spot = FALSE, !.eng.phase = "spot",
                       !.legs.liq = LegClose("spot")]

SweepNext ==
    /\ eng.pc = "liq"
    /\ legs.liq.c.pc = "returned"
    /\ \E econ \in BOOLEAN : Set(sweep_next(St, cfg, cache, econ, now))
    /\ UNCHANGED <<now, cfg, cache, event, venue, nonEngine>>

\* The wait at the end of an iteration: on the Quote Feed's event (cleared) or
\* its two-second timeout.  Without a Quote Feed the wait raises outside the
\* loop's handler and the signal loop ends.
SignalWait ==
    /\ eng.pc = "wait"
    /\ IF cfg.mode = "ws"
       THEN /\ eng' = [eng EXCEPT !.pc = "top"]
            /\ event' = FALSE
       ELSE /\ eng' = [eng EXCEPT !.pc = "crashed"]
            /\ event' = event
    /\ UNCHANGED <<now, pm, cfg, cache, model, legs, venue, last_trade_time,
                   entry_timestamp, obs, nonEngine>>

Next ==
    \/ EngineTick
    \/ QuoteUpdate
    \/ ModelLoop
    \/ SignalLoop
    \/ LegPre
    \/ LegResponse
    \/ OpenResume
    \/ OpenRaise
    \/ CloseResume
    \/ SweepNext
    \/ SignalWait

Spec == Init /\ [][Next]_vars

\* ------------------------------------------------ the model loop warming up
\* What the price source gives one cycle of the model loop.
ModelInputs ==
    IF cfg.mode = "ws"
    THEN {[err |-> FALSE, ok |-> HasMid(cache.spot) /\ HasMid(cache.futures)]}
    ELSE IF cfg.mode = "mid"
    THEN {[err |-> FALSE, ok |-> TRUE], [err |-> TRUE, ok |-> FALSE]}
    ELSE {[err |-> FALSE, ok |-> k] : k \in BOOLEAN}

\* _model_loop: one cycle, with or without both prices.
ModelCycle ==
    /\ LoopFree
    /\ \E i \in ModelInputs :
          LET m == model_cycle(model, i)
          IN  /\ model' = m
              /\ obs' = [obs EXCEPT !.ml =
                            [fed |-> IF i.ok /\ ~i.err THEN Min(@.fed + 1, Lookback)
                                     ELSE @.fed,
                             last |-> IF i.ok /\ ~i.err THEN "fed" ELSE "missing",
                             kept |-> m = model]]
    /\ UNCHANGED <<now, pm, cfg, cache, event, eng, legs, venue, last_trade_time,
                   entry_timestamp, nonEngine>>

NextWarmup ==
    \/ EngineTick
    \/ QuoteUpdate
    \/ ModelCycle

SpecWarmup == Init /\ [][NextWarmup]_vars

\* ------------------------------------------- the Engine with a stubbed model
\* The Signal enumeration: everything a model may answer.
Signals == {0 - 1, 0, 1, 2}

\* _signal_loop: one iteration, the model answering any Signal.
SignalLoopStub ==
    /\ eng.pc = "top"
    /\ NoOrphan
    /\ \E i \in SignalInputs, sig \in Signals :
          Set(signal_iteration_stub([St EXCEPT !.obs.att = FreshAttempt, !.obs.exit = NoExit,
                             !.obs.skip = NoSkip, !.obs.cls = NoClose,
                             !.obs.trade = NoTrade], sig, i,
                                    cfg, cache, now))
    /\ UNCHANGED <<now, cfg, cache, event, venue, nonEngine>>

NextStub ==
    \/ EngineTick
    \/ QuoteUpdate
    \/ ModelLoop
    \/ SignalLoopStub
    \/ LegPre
    \/ LegResponse
    \/ OpenResume
    \/ OpenRaise
    \/ CloseResume
    \/ SweepNext
    \/ SignalWait

SpecStub == Init /\ [][NextStub]_vars


\* ------------------------------------------------ claims on the ledger
\* C3: open while a position is open, and close while none is open, fail with
\* an error and leave every field of the ledger as it was.
C3_FailedCallKeepsLedger ==
    /\ (lret.op = "open" /\ lret.before.is_open) => (lret.raised /\ pm = lret.before)
    /\ (lret.op = "close" /\ ~lret.before.is_open) => (lret.raised /\ pm = lret.before)

\* C3 witness: a second open, with other prices than the recorded ones, has failed.
C3_Witness ==
    /\ lret.op = "open"
    /\ lret.before.is_open
    /\ lret.raised
    /\ lret.a1 # lret.before.spot_entry_price
    /\ lprev.op = "open"

\* The claim's PnL formulas, written out from the entry recorded before the
\* close (b) and the exit prices (se, fe), in money units.
ClaimSpotPnl(b, se) ==
    IF b.side = "LONG" THEN (se - b.spot_entry_price) * b.size * MoneyPerTickUnit
    ELSE 0 - (se - b.spot_entry_price) * b.size * MoneyPerTickUnit

ClaimFuturesPnl(b, fe) ==
    IF b.side = "LONG" THEN (b.futures_entry_price - fe) * b.size * MoneyPerTickUnit
    ELSE 0 - (b.futures_entry_price - fe) * b.size * MoneyPerTickUnit

ClaimFees(b, se, fe) ==
    ((TC * MoneyPerTickUnit) \div TCDen)
        * ((b.spot_entry_price + se + b.futures_entry_price + fe) * b.size)

ClaimNet(b, se, fe) == ClaimSpotPnl(b, se) + ClaimFuturesPnl(b, fe) - ClaimFees(b, se, fe)

ClosedOk == lret.op = "close" /\ ~lret.raised

\* C4 as stated: a close after an open returns exactly the formulas' values.
C4_Original ==
    ClosedOk =>
        /\ lret.result.SpotPnL = ClaimSpotPnl(lret.before, lret.a1)
        /\ lret.result.FuturesPnL = ClaimFuturesPnl(lret.before, lret.a2)
        /\ lret.result.TotalNetPnL = ClaimNet(lret.before, lret.a1, lret.a2)

\* C4 amended: a close after an open returns the formulas' values rounded to 4
\* decimals (LONG 100/100.5 closed at 101/100, size 1, fee 0: +1, +0.5, +1.5).
C4_RoundedPnl ==
    /\ ClosedOk =>
        /\ lret.result.SpotPnL = Round4(ClaimSpotPnl(lret.before, lret.a1))
        /\ lret.result.FuturesPnL = Round4(ClaimFuturesPnl(lret.before, lret.a2))
        /\ lret.result.TotalNetPnL = Round4(ClaimNet(lret.before, lret.a1, lret.a2))
    /\ ( /\ ClosedOk
         /\ TC = 0
         /\ lret.before.side = "LONG"
         /\ lret.before.spot_entry_price = 200
         /\ lret.before.futures_entry_price = 201
         /\ lret.before.size = 200
         /\ lret.a1 = 202
         /\ lret.a2 = 200 ) =>
        /\ lret.result.SpotPnL = 1000000
        /\ lret.result.FuturesPnL = 500000
        /\ lret.result.TotalNetPnL = 1500000

\* C4 witness: a SHORT position closed with fees, the net rounded away from the
\* exact value.
C4_Witness ==
    /\ ClosedOk
    /\ lprev.op = "open"
    /\ lret.before.side = "SHORT"
    /\ TC # 0
    /\ lret.result.TotalNetPnL # ClaimNet(lret.before, lret.a1, lret.a2)
    /\ lret.result.SpotPnL # 0

\* C5: after a successful close the ledger is empty again, so an open directly
\* after a close succeeds and a close directly after a close fails.
C5_CloseResets ==
    /\ ClosedOk => pm = EmptyLedger
    /\ (lret.op = "open" /\ lprev.op = "close" /\ ~lprev.raised) => ~lret.raised
    /\ (lret.op = "close" /\ lprev.op = "close") => lret.raised

\* C5 witness: an open has succeeded directly after a successful close.
C5_Witness ==
    /\ lret.op = "open"
    /\ ~lret.raised
    /\ lprev.op = "close"
    /\ ~lprev.raised
    /\ pm.is_open

CalcWhileClosed == lret.op = "calc_total_pnl" /\ ~lret.before.is_open

\* C6 as stated: calc_total_pnl with no position open returns 0, raises nothing
\* and leaves the ledger unchanged.
C6_Original ==
    CalcWhileClosed => (~lret.raised /\ lret.value = 0 /\ pm = lret.before)

\* C6 amended: calc_total_pnl with no position open raises an error (ValueError)
\* and leaves the ledger unchanged.
C6_RaisesWhenClosed ==
    CalcWhileClosed => (lret.raised /\ pm = lret.before)

\* C6 witness: calc_total_pnl was called on a ledger closed by a close.
C6_Witness ==
    /\ CalcWhileClosed
    /\ lprev.op = "close"
    /\ ~lprev.raised

CalcWhileOpen == lret.op = "calc_total_pnl" /\ lret.before.is_open

\* C7 as stated: with a position open, calc_total_pnl(s, f) is the net PnL that
\* close(s, f) would report, and the ledger is unchanged.
C7_Original ==
    CalcWhileOpen =>
        /\ ~lret.raised
        /\ lret.value = close(lret.before, lret.a1, lret.a2, now, TC).result.TotalNetPnL
        /\ pm = lret.before

\* C7 amended: with a position open, calc_total_pnl(s, f) is spot PnL + futures
\* PnL for those exit prices, before fees and unrounded (the net of close plus
\* its fees), and the ledger is unchanged.
C7_GrossPnl ==
    CalcWhileOpen =>
        /\ ~lret.raised
        /\ lret.value = ClaimSpotPnl(lret.before, lret.a1)
                            + ClaimFuturesPnl(lret.before, lret.a2)
        /\ lret.value = ClaimNet(lret.before, lret.a1, lret.a2)
                            + ClaimFees(lret.before, lret.a1, lret.a2)
        /\ pm = lret.before

\* C7 witness: calc_total_pnl on an open position, fees not 0, a value that is
\* not the net close would report.
C7_Witness ==
    /\ CalcWhileOpen
    /\ TC # 0
    /\ lret.value # 0
    /\ lret.value # close(lret.before, lret.a1, lret.a2, now, TC).result.TotalNetPnL

\* ---------------------------------------- claims on the Order Executor
IsFilterRejection(r) == r.kind = "api" /\ r.code \in FILTER_CODES

BudgetSpent ==
    /\ Len(so.resps) = max_retries
    /\ \A i \in 1..Len(so.resps) : IsFilterRejection(so.resps[i])

\* After the budget's last filter rejection: nothing more is sent, and the call
\* returns False.
BudgetSpentFails ==
    BudgetSpent =>
        /\ so.pc \in {"loop", "returned"}
        /\ so.pc = "returned" => ~so.result
        /\ Len(so.sent) = max_retries

\* C8 as stated: one _safe_order call sends at most max_retries orders and always
\* returns a boolean (it never raises); after the budget's last consecutive
\* filter rejection it returns failure.
C8_Original ==
    /\ Len(so.sent) <= max_retries
    /\ so.pc # "raised"
    /\ BudgetSpentFails

\* C8 amended: one _safe_order call sends at most max_retries orders; it returns
\* a boolean whenever every answer of the venue client was an acceptance or an
\* API rejection, and raises only when the client call raised another exception;
\* after the budget's last consecutive filter rejection it returns failure.
C8_BudgetAndBoolean ==
    /\ Len(so.sent) <= max_retries
    /\ so.pc = "raised" =>
          /\ Len(so.resps) > 0
          /\ so.resps[Len(so.resps)].kind = "exc"
    /\ (\A i \in 1..Len(so.resps) : so.resps[i].kind # "exc") => so.pc # "raised"
    /\ BudgetSpentFails

\* C8 witness: the call has returned False after three filter rejections in a
\* row, three orders sent.
C8_Witness ==
    /\ BudgetSpent
    /\ so.pc = "returned"
    /\ ~so.result
    /\ so.attempt = max_retries
    /\ Len(so.sent) = max_retries

\* C9: an API rejection that is not a filter rejection ends the call at once, no
\* further order sent: code -2022 returns True, any other code returns False.
C9_HardRejectionEnds ==
    /\ \A i \in 1..Len(so.resps) :
          (so.resps[i].kind = "api" /\ ~IsFilterRejection(so.resps[i])) =>
              /\ i = Len(so.resps)
              /\ so.pc = "returned"
              /\ so.result = (so.resps[i].code = REDUCE_ONLY_REJECTED)
              /\ Len(so.sent) = i
    /\ \A i \in 1..(Len(so.resps) - 1) : IsFilterRejection(so.resps[i])

\* C9 witness: a retried order was rejected with -2022 and the call returned
\* True; and the harness reaches other codes too (C9_HardRejectionEnds reads them).
C9_Witness ==
    /\ Len(so.resps) = 2
    /\ so.resps[2] = [kind |-> "api", code |-> REDUCE_ONLY_REJECTED]
    /\ so.pc = "returned"
    /\ so.result

\* C10 as stated: in one call at most one order is accepted and none is sent after it; the
\* quantities sent are strictly decreasing, each at most half of the one before,
\* none above the quantity asked for.
C10_OneFillShrinking ==
    /\ so.accepted <= 1
    /\ so.accepted = 1 =>
          /\ so.pc = "returned"
          /\ so.resps[Len(so.resps)].kind = "ok"
          /\ Len(so.sent) = Len(so.resps)
    /\ \A i \in 1..Len(so.resps) : so.resps[i].kind = "ok" => i = Len(so.resps)
    /\ \A i \in 1..Len(so.sent) : so.sent[i] <= so.requested
    /\ \A i \in 2..Len(so.sent) :
          /\ so.sent[i] < so.sent[i - 1]
          /\ 2 * so.sent[i] <= so.sent[i - 1]

\* C10 witness: the third order of a call was accepted, the second one less than
\* half of the first.
C10_Witness ==
    /\ Len(so.sent) = 3
    /\ so.accepted = 1
    /\ so.sent[3] > 0
    /\ 2 * so.sent[2] < so.sent[1]
    /\ so.sent[1] < so.requested

\* ------------------------------------------------------ claims on the Engine
\* C1: the ledger holds at most one open position, and the signal loop never
\* calls the ledger's open while a position is open: no open attempt is under
\* way while the ledger is open, and open has never raised 'already open'.
C1_NeverOpensTwice ==
    /\ ~obs.openRaised
    /\ eng.pc = "opening" => ~pm.is_open
    /\ obs.att.done /\ obs.att.recorded => pm.is_open
    /\ pm.is_open => pm.side \in Sides /\ pm.size > 0

\* The ledger is open, the model's last entry signal is LONG, and an iteration
\* of the signal loop has run to its wait without an open attempt.
C1_Witness ==
    /\ pm.is_open
    /\ eng.pc = "wait"
    /\ ~obs.att.done
    /\ model.entry_signal = 1

\* An open attempt has ended with exactly one leg returning success.
OneLegSucceeded ==
    /\ obs.att.done
    /\ (obs.att.spot = "T") # (obs.att.fut = "T")

\* C2 as stated: the ledger opens exactly when both legs returned success, and
\* when exactly one leg succeeded the ledger stays closed and the Engine sends
\* no compensating order.
C2_Original ==
    /\ obs.att.done => (obs.att.recorded <=> obs.att.spot = "T" /\ obs.att.fut = "T")
    /\ OneLegSucceeded => ~obs.att.recorded /\ ~obs.att.swept

\* C2: the ledger opens exactly when both legs of the attempt returned success.
\* When one leg returned success and the other returned failure the ledger
\* stays closed and no sweep is run (the Engine goes on without a closing
\* order); when a leg raised, the ledger stays closed and the
\* liquidate-everything sweep runs.
C2_BothLegsOrNothing ==
    obs.att.done =>
        /\ obs.att.recorded <=> obs.att.spot = "T" /\ obs.att.fut = "T"
        /\ obs.att.recorded <=> pm.is_open
        /\ obs.att.spot = "T" /\ obs.att.fut = "F" =>
              ~obs.att.swept /\ eng.pc # "liq" /\ legs.liq = NoLeg
        /\ obs.att.spot = "F" /\ obs.att.fut = "T" =>
              ~obs.att.swept /\ eng.pc # "liq" /\ legs.liq = NoLeg
        /\ obs.att.spot = "X" \/ obs.att.fut = "X" =>
              obs.att.swept /\ ~obs.att.recorded

\* An attempt whose spot leg returned success and whose futures leg returned
\* failure is over: nothing recorded, no sweep, the spot holding still there.
C2_Witness ==
    /\ obs.att.done
    /\ obs.att.spot = "T"
    /\ obs.att.fut = "F"
    /\ ~pm.is_open
    /\ ~obs.att.swept
    /\ venue.spot > 0
    /\ eng.pc = "wait"

\* --------------------------------------------- claims on adjust_to_step_size
\* C11 as stated: adjust_to_step_size(q, s) is the largest multiple of s not
\* exceeding q: never above q, an exact multiple of s, and less than s below q.
C11_LargestMultiple ==
    adj.pc \in {"adjusted", "readjusted"} =>
        /\ adj.result <= adj.quantity
        /\ adj.result % adj.step_size = 0
        /\ adj.quantity - adj.result < adj.step_size

\* The spec's own examples are computed as it says: 0.07 and 0.073 with step
\* 0.01 both give 0.07.
C11_Examples ==
    /\ adjust_thousandths(70, 10) = 70
    /\ adjust_thousandths(73, 10) = 70

\* C12 as stated: adjusting an adjusted quantity again with the same step
\* returns it unchanged.
C12_Idempotent ==
    adj.pc = "readjusted" => adj.again = adj.result

\* ------------------------------------------------- claims on the Spread Model
\* C13: the classical model's ready() is false after fewer than Lookback
\* updates, true from the Lookback-th update on, and never false again,
\* whatever updates and signal calls follow.
C13_ReadyLatch ==
    sm.variant = "classical" =>
        /\ ready(sm) <=> sm.updates >= Lookback
        /\ sm.ptr = sm.updates % Lookback

\* The classical model has wrapped its pointer twice and moved on, signal calls
\* in between, and is ready.
C13_Witness ==
    /\ sm.variant = "classical"
    /\ sm.updates = MaxUpdates
    /\ sm.ptr # 0
    /\ sm.ret # NoneVal
    /\ ready(sm)

\* C14 as stated: once get_signal has returned +1, every later call returns
\* only 0 or 2 (never -1, no further +1) until a call returns 0.
C14_Original ==
    sm.was_armed => sm.ret \in {0, 2}

\* C14: once get_signal has returned +1, no later call returns -1 until a call
\* returns 0; the calls in between return 2 or +1 again.
C14_NoShortAfterLong ==
    sm.was_armed => sm.ret \in {0, 1, 2}

\* After a +1, with short spreads permitted, a z-score above the entry
\* threshold has been answered with 0.
C14_Witness ==
    /\ sm.was_armed
    /\ sm.allow_short
    /\ sm.z > entry_z
    /\ sm.ret = 0

C20_HoldsMinimumTime ==
    (eng.pc = "closing" /\ pm.is_open) => now - pm.entry_time >= MIN_HOLDING_TIME

\* C16: for a ready model, when the spread of the prices equals the model's
\* mean exactly and the prices have a positive sum, get_economic_signal is
\* false for every fee rate above 0 and true only for the fee rate 0.
C16_NoProfitAtTheMean ==
    LET e == sm.econ
    IN  (/\ e.called
         /\ e.ready
         /\ e.spot + e.futures > 0
         /\ (e.spot - e.futures) * e.mean.den = e.mean.num)
        => /\ compute_expected_profit(e.spot - e.futures, e.mean.num, e.mean.den) = 0
           /\ e.result <=> TC = 0

\* A ready classical model whose mean is not 0 was asked at its mean, with a
\* fee rate above 0, and answered false.
C16_Witness ==
    /\ sm.econ.called
    /\ sm.econ.ready
    /\ sm.variant = "classical"
    /\ sm.econ.mean.num # 0
    /\ (sm.econ.spot - sm.econ.futures) * sm.econ.mean.den = sm.econ.mean.num
    /\ TC > 0
    /\ ~sm.econ.result

\* ------------------------------------------------- claims on the Quote Feed
\* C17: a message sets the event if and only if its bid or ask differs from
\* the stored one; an identical message leaves the event as it was, also
\* after a consumer has cleared it.
C17_ChangedOnlyOnChange ==
    /\ feed.last.kind = "changed" => event
    /\ feed.last.kind = "same" => event = feed.last.ev_before

\* After a consumer cleared the event, a message identical to the stored
\* values was processed and the event is still clear.
C17_Witness ==
    /\ feed.last.kind = "same"
    /\ ~feed.last.ev_before
    /\ ~event
    /\ HasMid(cache.spot)

\* C18 as stated: per leg the delays do not decrease up to the cap, and the
\* delay after a connection that delivered messages is the base delay,
\* however that connection ended.
C18_BackoffResets ==
    \A l \in Markets :
        /\ feed[l].delay # NoneVal =>
              feed[l].backoff >= feed[l].delay \/ feed[l].backoff = BackoffBase
        /\ feed[l].pc = "sleep" =>
            /\ feed[l].delay <= BackoffCap
            /\ feed[l].after_conn => feed[l].delay = BackoffBase

C21_Original ==
    LET X == obs.exit
    IN  /\ X.closing => X.signal = 0 /\ X.open
        /\ (eng.pc = "closing" /\ cfg.book_exit) =>
              \/ /\ X.bid # NoneVal
                 /\ X.ask # NoneVal
                 /\ calc_total_pnl(pm, X.bid, X.ask).value >= 0
              \/ X.t - pm.entry_time > EXIT_TIMEOUT_SECONDS
        /\ (X.signal = 0 /\ X.open /\ ~cfg.book_exit) => X.closing

\* C21: the same, the time counted from the timestamp the Engine took before
\* it submitted the entry orders of the position.
C21_ExitRule ==
    LET X == obs.exit
    IN  /\ X.closing => X.signal = 0 /\ X.open
        /\ (eng.pc = "closing" /\ cfg.book_exit) =>
              /\ entry_timestamp # NoneVal
              /\ \/ /\ X.bid # NoneVal
                    /\ X.ask # NoneVal
                    /\ calc_total_pnl(pm, X.bid, X.ask).value >= 0
                 \/ X.t - entry_timestamp > EXIT_TIMEOUT_SECONDS
        /\ (X.signal = 0 /\ X.open /\ ~cfg.book_exit) => X.closing

\* With book-based exit a close has started on the timeout alone: the PnL at
\* the book is negative.
C21_Witness ==
    /\ eng.pc = "closing"
    /\ cfg.book_exit
    /\ obs.exit.bid # NoneVal
    /\ obs.exit.ask # NoneVal
    /\ calc_total_pnl(pm, obs.exit.bid, obs.exit.ask).value < 0
    /\ obs.exit.t - entry_timestamp > EXIT_TIMEOUT_SECONDS


\* C22: any two entry attempts of the Engine begin more than the minimum trade
\* interval apart, whether or not the earlier one ended with a position.
C22_AttemptsApart ==
    obs.tries.prev # NoneVal => obs.tries.last - obs.tries.prev > TRADE_SLEEP

\* A second attempt after one that recorded no position.
C22_Witness ==
    /\ obs.tries.prev # NoneVal
    /\ ~obs.tries.prev_ok
    /\ eng.pc = "opening"

\* C23: entry orders are in flight only when the iteration that submitted them
\* saw no open position, an entry signal, a viable economic filter and
\* fut_bid > spot_ask; in every price-source mode.
C23_EntryGate ==
    eng.pc = "opening" =>
        /\ ~obs.entry.open
        /\ obs.entry.signal \in {1, 0 - 1}
        /\ obs.entry.viable
        /\ obs.entry.executable

\* Entry orders submitted in a polling mode.
C23_Witness ==
    /\ eng.pc = "opening"
    /\ cfg.mode = "mid"
    /\ legs.spot.c.pc = "sent"
    /\ legs.fut.c.pc = "sent"

\* C24: an iteration that finds the model not ready or a price missing submits
\* no order, leaves the ledger and the model's direction unchanged and raises
\* no error.
C24_SkipIsSilent ==
    obs.skip.why # "none" => obs.skip.kept /\ ~obs.skip.raised

\* C25: when exactly one leg of a close has reported success and the other
\* failure, the sweep has run by the time the iteration is over.
C25_HalfCloseIsSwept ==
    (eng.pc = "wait" /\ {obs.cls.spot, obs.cls.fut} = {"T", "F"}) => obs.cls.swept

\* C26: the Engine acts on the outcome of an open attempt only when both leg
\* submissions have run to completion: no leg order is in flight once the
\* Engine has left the gather of open_position.
C26_NoOverlap ==
    \A l \in {"spot", "fut"} :
        legs[l].c.pc = "sent" => eng.pc \in {"opening", "closing"}

\* C27: no operational error and no wait ends a loop of the Engine: the signal
\* loop, and with it the model loop, is never terminated, in streaming and in
\* polling mode alike.
C27_LoopsNeverEnd == eng.pc # "crashed"

\* C28: every order _safe_order has sent, on the first attempt and on every
\* retry, carries a quantity that is at least the minimum quantity and
\* greater than 0.
C28_SentAtLeastMinimum ==
    \A k \in DOMAIN so.sent : so.sent[k] >= so.min_qty /\ so.sent[k] > 0

\* ------------------------------------------- claims on the two variants
\* C29: when get_signal answers EXIT(0) because the exit condition of the held
\* direction is met (LONG held and z >= exit_z, SHORT held and z <= -exit_z),
\* the remembered direction is 0 afterwards; for both variants.
C29_ExitClearsDirection ==
    ( /\ sm.ret = 0
      /\ \/ sm.held = 1 /\ sm.z >= exit_z
         \/ sm.held = 0 - 1 /\ sm.z <= 0 - exit_z )
    => sm.entry_signal = 0

\* C30: fed the same z-scores from the same start, the classical and the
\* Kalman variant give the same answers and hold the same direction after
\* every call.
C30_SameStateMachine ==
    sm.ret # NoneVal =>
        /\ sm.twin.ret = sm.ret
        /\ sm.twin.entry_signal = sm.entry_signal

\* ------------------------------------------- claims on the sweep
\* C31: liquidate_all_positions returns only after a pass in which the spot
\* close and the futures close both reported success; until then it starts
\* pass after pass, and the model loop takes no step while it runs.
C31_SweepUntilBothFlat ==
    [][eng.pc = "liq" =>
          /\ model' = model
          /\ eng'.pc # "liq" =>
                /\ eng.phase = "fut"
                /\ eng.liq_spot
                /\ legs.liq.c.pc = "returned"
                /\ legs.liq.c.result
          /\ (eng.phase = "fut" /\ eng'.phase = "spot" /\ eng'.pc = "liq") =>
                ~(eng.liq_spot /\ legs.liq.c.result)]_vars

\* A pass of the sweep has failed on the futures close after the spot close
\* succeeded: the sweep is about to start over.
C31_Witness ==
    /\ eng.pc = "liq"
    /\ eng.phase = "fut"
    /\ eng.liq_spot
    /\ legs.liq.c.pc = "returned"
    /\ ~legs.liq.c.result

\* ------------------------------------------- claims on the model loop
\* C32: every model-loop cycle with both prices feeds one observation, so the
\* model is ready exactly when Lookback cycles have fed it; a cycle with a
\* missing leg feeds nothing and leaves the model as it was.
C32_WarmUpByFeeding ==
    /\ ready(model) <=> obs.ml.fed = Lookback
    /\ ~ready(model) => model.ptr = obs.ml.fed
    /\ obs.ml.last = "fed" => ~obs.ml.kept
    /\ obs.ml.last = "missing" => obs.ml.kept

\* The model has become ready, and the last cycle had a leg missing.
C32_Witness ==
    /\ ready(model)
    /\ obs.ml.fed = Lookback
    /\ obs.ml.last = "missing"

\* ------------------------------------------- claims on entries and exits
\* C33: an iteration that passes the entry gate and the throttle submits both
\* entry legs, and when both legs have succeeded the ledger is open at the end
\* of the iteration.
C33_NoMissedTrade ==
    /\ obs.trade.gate => obs.trade.legs
    /\ ( /\ eng.pc = "wait"
         /\ obs.att.done
         /\ obs.att.spot = "T"
         /\ obs.att.fut = "T" ) => pm.is_open

\* C34: when the ledger records an open position, the quantity the venue
\* accepted on the spot leg equals the one accepted on the futures leg, and
\* both equal the size recorded in the ledger.
C34_LegsMatchLedger ==
    (obs.att.recorded /\ pm.is_open) =>
        /\ obs.att.got.spot = obs.att.got.fut
        /\ obs.att.got.spot = pm.size

\* C35: when both close helpers of close_position reported success, the ledger
\* is closed when the iteration is over, whatever the exit-price fetch gave.
C35_ClosedWhenFlattened ==
    ( /\ eng.pc = "wait"
      /\ obs.cls.spot = "T"
      /\ obs.cls.fut = "T"
      /\ ~obs.att.recorded ) => ~pm.is_open

\* C36: at the end of every iteration the model's remembered direction agrees
\* with the ledger: +1 or -1 only with an open position of that side, 0
\* whenever no position is open.
C36_DirectionMatchesLedger ==
    eng.pc = "wait" =>
        /\ model.entry_signal = 1 => pm.is_open /\ pm.side = "LONG"
        /\ model.entry_signal = 0 - 1 => pm.is_open /\ pm.side = "SHORT"
        /\ ~pm.is_open => model.entry_signal = 0

\* C37: an iteration that has started a close submits no entry orders.
C37_NoCloseAndOpen ==
    obs.exit.closing => ~obs.trade.gate /\ eng.pc # "opening"

\* An iteration has closed its position and has gone through the entry
\* evaluation that follows the close to its wait.
C37_Witness ==
    /\ obs.exit.closing
    /\ obs.cls.spot = "T"
    /\ obs.cls.fut = "T"
    /\ ~pm.is_open
    /\ eng.pc = "wait"

====
